---- MODULE Spec2Model ----
(***************************************************************************)
(* The client-side caching layer of market-lens: the stock and AI caches   *)
(* of the useStockCache hook, the screener cache of the useScreenerCache   *)
(* hook, their localStorage slots, and the cached-fetch facade of          *)
(* createCachedStockApi.                                                    *)
(***************************************************************************)
EXTENDS Integers, Sequences, FiniteSets, TLC

VARIABLES
    mounted,        \* the component this page runs: App or StockbitScreener
    now,            \* Date.now(), in milliseconds
    stockCache,     \* cacheRef.current.stockCache : symbol -> CacheEntry
    aiCache,        \* cacheRef.current.aiCache    : key    -> CacheEntry
    screenerCache,  \* cacheRef.current.screenerCache : templateId -> CacheEntry
    localStorage,   \* slot name -> item
    calls,          \* facade calls suspended at their await
    timers,         \* the intervals setInterval started and clearInterval has not cleared
    screener,       \* the StockbitScreener component and the tokens of StockbitAPI
    app,            \* the App component: what it displays, and its handleSearch
                    \* calls suspended at an await
    lastOp,         \* what the last operation was, did and returned
    lastSet         \* per cache and key, the data and time of the last set of this
                    \* session, while its TTL has not elapsed

vars == <<mounted, now, stockCache, aiCache, screenerCache, localStorage, calls, timers,
          screener, app, lastOp, lastSet>>

-----------------------------------------------------------------------------
(* Bounds of the model *)

MaxCalls == 2

(* Inputs *)

(* the instants the clock is read at: both TTLs seen from 0 and from 1, on
   the boundary and one millisecond past it *)
Instants == {0, 1, 10 * 60 * 1000, 10 * 60 * 1000 + 1, 15 * 60 * 1000, 15 * 60 * 1000 + 1}

FacadeInstants == {0, 10 * 60 * 1000, 10 * 60 * 1000 + 1}

Symbols == {"AAPL", "MSFT"}

FacadeSymbols == {"AAPL"}

Prompts == {<<"AAPL">>}

(* the value undefined; a template literal prints it as "undefined" *)
Undefined == <<"undefined">>

Questions == {Undefined, <<"q1">>}

TemplateIds == {"4848138", "4848139"}

Data == {"bundleA", "bundleB"}

Null == "null"

(* an exception that leaves the operation *)
Thrown == "Error"

-----------------------------------------------------------------------------
(* Configuration of the cache instances *)

CACHE_TTL == 10 * 60 * 1000

SCREENER_CACHE_TTL == 15 * 60 * 1000

STOCK_CACHE_KEY == "stockCache"

AI_CACHE_KEY == "aiCache"

SCREENER_CACHE_KEY == "screenerCache"

(* setInterval(clearExpiredEntries, 60 * 1000) *)
SWEEP_INTERVAL == 60 * 1000

Slots == {STOCK_CACHE_KEY, AI_CACHE_KEY, SCREENER_CACHE_KEY}

ConfiguredTtl(cache) == IF cache = "screener" THEN SCREENER_CACHE_TTL ELSE CACHE_TTL

-----------------------------------------------------------------------------
(* Maps (JS objects used as dictionaries) *)

EmptyMap == [k \in {} |-> Null]

Put(map, key, entry) ==
    [k \in (DOMAIN map) \cup {key} |-> IF k = key THEN entry ELSE map[k]]

Restrict(map, keys) == [k \in keys |-> map[k]]

(* localStorage items: null (no item), a JSON text of a map, or a text that
   JSON.parse rejects.  The JSON text of a map is the set of its members,
   each member carrying its key and the three fields of its entry. *)

NoItem == [kind |-> "null", members |-> {}]

CorruptItem == [kind |-> "corrupt", members |-> {}]

JSONstringify(map) ==
    [kind |-> "json",
     members |-> {[key |-> k, data |-> map[k].data,
                   timestamp |-> map[k].timestamp, ttl |-> map[k].ttl] : k \in DOMAIN map}]

JSONparseRestamping(item) ==
    LET keys == {m.key : m \in item.members}
        member(k) == CHOOSE m \in item.members : m.key = k
    IN  [k \in keys |-> [data |-> member(k).data,
                         timestamp |-> now,
                         ttl |-> member(k).ttl]]

JSONparse(item) ==
    LET keys == {m.key : m \in item.members}
        member(k) == CHOOSE m \in item.members : m.key = k
    IN  [k \in keys |-> [data |-> member(k).data,
                         timestamp |-> member(k).timestamp,
                         ttl |-> member(k).ttl]]

ParseThrows(item) == item.kind = "corrupt"

Truthy(item) == item.kind # "null"

removeItem(store, key) == [store EXCEPT ![key] = NoItem]

-----------------------------------------------------------------------------
(* Expiry *)

(* a number field that a parsed entry does not have: reading it gives
   undefined, arithmetic on it gives NaN, and every comparison with NaN or
   undefined is false *)
Missing == -1

Comparable(entry) == entry.timestamp # Missing /\ entry.ttl # Missing

isExpiredAtOrAfterTtl(entry) == Comparable(entry) /\ now - entry.timestamp >= entry.ttl

isExpired(entry) == Comparable(entry) /\ now - entry.timestamp > entry.ttl

(* saveToLocalStorage: setItem inside try/catch; ok = FALSE is a setItem that
   throws (quota), which is logged and swallowed. *)
saveToLocalStorage(store, key, data, ok) ==
    IF ok THEN [store EXCEPT ![key] = JSONstringify(data)] ELSE store

-----------------------------------------------------------------------------
(* get *)

(* const entry = cache[key]; if (entry && !isExpired(entry)) return entry.data;
   return null; *)
cachedData(cache, key) ==
    IF key \in DOMAIN cache /\ ~isExpired(cache[key]) THEN cache[key].data ELSE Null

getCachedStockData(symbol) == cachedData(stockCache, symbol)

(* `${prompt}:${question || ''}` *)
AIKeyOfGet(prompt, question) ==
    prompt \o <<":">> \o (IF question = Undefined THEN <<>> ELSE question)

(* `${prompt}:${question}` *)
AIKeyOfSet(prompt, question) ==
    prompt \o <<":">> \o question

getCachedAIAnalysis(prompt, question) == cachedData(aiCache, AIKeyOfGet(prompt, question))

getCachedScreenerData(templateId) == cachedData(screenerCache, templateId)

-----------------------------------------------------------------------------
(* set: the effect of one call, as the new map, the new store, the slots
   setItem was called on and the set calls made *)

SetCall(cache, key, data) == [cache |-> cache, key |-> key, data |-> data]

setCachedStockDataIfAbsent(symbol, data, ok) ==
    LET entry == [data |-> data, timestamp |-> now, ttl |-> CACHE_TTL]
        newCache == IF symbol \in DOMAIN stockCache THEN stockCache
                    ELSE Put(stockCache, symbol, entry)
    IN  [cache |-> newCache,
         store |-> saveToLocalStorage(localStorage, STOCK_CACHE_KEY, newCache, ok),
         wrote |-> {STOCK_CACHE_KEY},
         sets |-> <<SetCall("stock", symbol, data)>>]

setCachedStockDataUnlessWriteFails(symbol, data, ok) ==
    LET entry == [data |-> data, timestamp |-> now, ttl |-> CACHE_TTL]
        newCache == IF ok THEN Put(stockCache, symbol, entry) ELSE stockCache
    IN  [cache |-> newCache,
         store |-> saveToLocalStorage(localStorage, STOCK_CACHE_KEY, newCache, ok),
         wrote |-> {STOCK_CACHE_KEY},
         sets |-> <<SetCall("stock", symbol, data)>>]

setCachedStockDataDroppingOthers(symbol, data, ok) ==
    LET entry == [data |-> data, timestamp |-> now, ttl |-> CACHE_TTL]
        newCache == Put(EmptyMap, symbol, entry)
    IN  [cache |-> newCache,
         store |-> saveToLocalStorage(localStorage, STOCK_CACHE_KEY, newCache, ok),
         wrote |-> {STOCK_CACHE_KEY},
         sets |-> <<SetCall("stock", symbol, data)>>]

setCachedStockData(symbol, data, ok) ==
    LET entry == [data |-> data, timestamp |-> now, ttl |-> CACHE_TTL]
        newCache == Put(stockCache, symbol, entry)
    IN  [cache |-> newCache,
         store |-> saveToLocalStorage(localStorage, STOCK_CACHE_KEY, newCache, ok),
         wrote |-> {STOCK_CACHE_KEY},
         sets |-> <<SetCall("stock", symbol, data)>>]

setCachedAIAnalysis(prompt, question, data, ok) ==
    LET key == AIKeyOfSet(prompt, question)
        entry == [data |-> data, timestamp |-> now, ttl |-> CACHE_TTL]
        newCache == Put(aiCache, key, entry)
    IN  [cache |-> newCache,
         store |-> saveToLocalStorage(localStorage, AI_CACHE_KEY, newCache, ok),
         wrote |-> {AI_CACHE_KEY},
         sets |-> <<SetCall("ai", key, data)>>]

setCachedScreenerDataKeepingTimestamp(templateId, data, ok) ==
    LET entry == [data |-> data,
                  timestamp |-> IF templateId \in DOMAIN screenerCache
                                THEN screenerCache[templateId].timestamp ELSE now,
                  ttl |-> SCREENER_CACHE_TTL]
        newCache == Put(screenerCache, templateId, entry)
    IN  [cache |-> newCache,
         store |-> saveToLocalStorage(localStorage, SCREENER_CACHE_KEY, newCache, ok),
         wrote |-> {SCREENER_CACHE_KEY},
         sets |-> <<SetCall("screener", templateId, data)>>]

setCachedScreenerData(templateId, data, ok) ==
    LET entry == [data |-> data, timestamp |-> now, ttl |-> SCREENER_CACHE_TTL]
        newCache == Put(screenerCache, templateId, entry)
    IN  [cache |-> newCache,
         store |-> saveToLocalStorage(localStorage, SCREENER_CACHE_KEY, newCache, ok),
         wrote |-> {SCREENER_CACHE_KEY},
         sets |-> <<SetCall("screener", templateId, data)>>]

-----------------------------------------------------------------------------
(* sweep *)

KeptBeforeTtl(map) ==
    {k \in DOMAIN map : Comparable(map[k]) /\ now - map[k].timestamp < map[k].ttl}

Kept(map) ==
    {k \in DOMAIN map : Comparable(map[k]) /\ now - map[k].timestamp <= map[k].ttl}

(* useStockCache.clearExpiredEntries: one hasChanges flag for both maps *)
stockClearExpiredEntries(okStock, okAi) ==
    LET newStockCache == Restrict(stockCache, Kept(stockCache))
        newAiCache == Restrict(aiCache, Kept(aiCache))
        hasChanges == Kept(stockCache) # DOMAIN stockCache \/ Kept(aiCache) # DOMAIN aiCache
    IN  IF hasChanges
        THEN [stockCache |-> newStockCache,
              aiCache |-> newAiCache,
              store |-> saveToLocalStorage(
                            saveToLocalStorage(localStorage, STOCK_CACHE_KEY, newStockCache, okStock),
                            AI_CACHE_KEY, newAiCache, okAi),
              wrote |-> {STOCK_CACHE_KEY, AI_CACHE_KEY}]
        ELSE [stockCache |-> stockCache, aiCache |-> aiCache,
              store |-> localStorage, wrote |-> {}]

(* useScreenerCache.clearExpiredEntries *)
screenerClearExpiredEntries(ok) ==
    LET newScreenerCache == Restrict(screenerCache, Kept(screenerCache))
        hasChanges == Kept(screenerCache) # DOMAIN screenerCache
    IN  IF hasChanges
        THEN [cache |-> newScreenerCache,
              store |-> saveToLocalStorage(localStorage, SCREENER_CACHE_KEY, newScreenerCache, ok),
              wrote |-> {SCREENER_CACHE_KEY}]
        ELSE [cache |-> screenerCache, store |-> localStorage, wrote |-> {}]

-----------------------------------------------------------------------------
(* clear and stats *)

(* clearCache empties the maps and then calls removeItem with no try/catch
   around it: a removeItem that throws (ok = FALSE) ends the call there, and
   the exception leaves clearCache. *)

stockClearCacheKeepingAiSlot(okStock, okAi) ==
    [stockCache |-> EmptyMap, aiCache |-> EmptyMap,
     store |-> removeItem(localStorage, STOCK_CACHE_KEY),
     value |-> Null, failed |-> {}]

stockClearCache(okStock, okAi) ==
    IF ~okStock
    THEN [stockCache |-> EmptyMap, aiCache |-> EmptyMap,
          store |-> localStorage,
          value |-> Thrown, failed |-> {STOCK_CACHE_KEY}]
    ELSE IF ~okAi
    THEN [stockCache |-> EmptyMap, aiCache |-> EmptyMap,
          store |-> removeItem(localStorage, STOCK_CACHE_KEY),
          value |-> Thrown, failed |-> {AI_CACHE_KEY}]
    ELSE [stockCache |-> EmptyMap, aiCache |-> EmptyMap,
          store |-> removeItem(removeItem(localStorage, STOCK_CACHE_KEY), AI_CACHE_KEY),
          value |-> Null, failed |-> {}]

screenerClearCache(ok) ==
    IF ~ok
    THEN [cache |-> EmptyMap, store |-> localStorage,
          value |-> Thrown, failed |-> {SCREENER_CACHE_KEY}]
    ELSE [cache |-> EmptyMap, store |-> removeItem(localStorage, SCREENER_CACHE_KEY),
          value |-> Null, failed |-> {}]

stockGetCacheStatsCountingValid ==
    [stockEntries |-> Cardinality({k \in DOMAIN stockCache : ~isExpired(stockCache[k])}),
     aiEntries |-> Cardinality({k \in DOMAIN aiCache : ~isExpired(aiCache[k])}),
     totalEntries |-> Cardinality({k \in DOMAIN stockCache : ~isExpired(stockCache[k])})
                        + Cardinality({k \in DOMAIN aiCache : ~isExpired(aiCache[k])})]

stockGetCacheStats ==
    [stockEntries |-> Cardinality(DOMAIN stockCache),
     aiEntries |-> Cardinality(DOMAIN aiCache),
     totalEntries |-> Cardinality(DOMAIN stockCache) + Cardinality(DOMAIN aiCache)]

screenerGetCacheStats ==
    LET screenerKeys == DOMAIN screenerCache
        validEntries == {k \in screenerKeys : ~isExpired(screenerCache[k])}
    IN  [screenerEntries |-> Cardinality(screenerKeys),
         validEntries |-> Cardinality(validEntries),
         expiredEntries |-> Cardinality(screenerKeys) - Cardinality(validEntries)]

-----------------------------------------------------------------------------
(* Hydration: the mount effects of the two hooks *)

Loaded(item) == IF Truthy(item) THEN JSONparse(item) ELSE EmptyMap

useStockCacheMountKeepingSlots(store) ==
    LET storedStockCache == store[STOCK_CACHE_KEY]
        storedAiCache == store[AI_CACHE_KEY]
    IN  IF Truthy(storedStockCache) /\ ParseThrows(storedStockCache)
        THEN [stockCache |-> EmptyMap, aiCache |-> EmptyMap, store |-> store]
        ELSE IF Truthy(storedAiCache) /\ ParseThrows(storedAiCache)
        THEN [stockCache |-> Loaded(storedStockCache), aiCache |-> EmptyMap, store |-> store]
        ELSE [stockCache |-> Loaded(storedStockCache), aiCache |-> Loaded(storedAiCache),
              store |-> store]

(* useStockCache: one try block loads the stock slot and then the AI slot;
   its catch removes both slots. *)
useStockCacheMount(store) ==
    LET storedStockCache == store[STOCK_CACHE_KEY]
        storedAiCache == store[AI_CACHE_KEY]
        cleared == removeItem(removeItem(store, STOCK_CACHE_KEY), AI_CACHE_KEY)
    IN  IF Truthy(storedStockCache) /\ ParseThrows(storedStockCache)
        THEN [stockCache |-> EmptyMap, aiCache |-> EmptyMap, store |-> cleared]
        ELSE IF Truthy(storedAiCache) /\ ParseThrows(storedAiCache)
        THEN [stockCache |-> Loaded(storedStockCache), aiCache |-> EmptyMap, store |-> cleared]
        ELSE [stockCache |-> Loaded(storedStockCache), aiCache |-> Loaded(storedAiCache),
              store |-> store]

useScreenerCacheMount(store) ==
    LET storedScreenerCache == store[SCREENER_CACHE_KEY]
    IN  IF Truthy(storedScreenerCache) /\ ParseThrows(storedScreenerCache)
        THEN [cache |-> EmptyMap, store |-> removeItem(store, SCREENER_CACHE_KEY)]
        ELSE [cache |-> Loaded(storedScreenerCache), store |-> store]

-----------------------------------------------------------------------------
(* The cached-fetch facade of createCachedStockApi.  A call runs up to its
   await (Check), and resumes when the upstream fetch resolves (Store) or
   rejects. *)

ReturnNow(value) == [return |-> TRUE, value |-> value]

FetchFresh == [return |-> FALSE, value |-> Null]

cachedGetStockDataCheckIgnoringForce(symbol, forceRefresh) ==
    IF getCachedStockData(symbol) # Null
    THEN ReturnNow(getCachedStockData(symbol))
    ELSE FetchFresh

cachedGetStockDataCheck(symbol, forceRefresh) ==
    IF ~forceRefresh /\ getCachedStockData(symbol) # Null
    THEN ReturnNow(getCachedStockData(symbol))
    ELSE FetchFresh

cachedGetStockDataStoreUnlessCached(symbol, data, ok) ==
    LET r == setCachedStockData(symbol, data, ok)
    IN  IF getCachedStockData(symbol) # Null
        THEN [cache |-> stockCache, store |-> localStorage, wrote |-> {}, sets |-> <<>>,
              value |-> getCachedStockData(symbol)]
        ELSE [cache |-> r.cache, store |-> r.store, wrote |-> r.wrote, sets |-> r.sets,
              value |-> data]

cachedGetStockDataStore(symbol, data, ok) ==
    LET r == setCachedStockData(symbol, data, ok)
    IN  [cache |-> r.cache, store |-> r.store, wrote |-> r.wrote, sets |-> r.sets,
         value |-> data]

cachedGetAIAnalysisCheckAlwaysFetching(prompt, question, forceRefresh) == FetchFresh

cachedGetAIAnalysisCheck(prompt, question, forceRefresh) ==
    IF ~forceRefresh /\ getCachedAIAnalysis(prompt, question) # Null
    THEN ReturnNow(getCachedAIAnalysis(prompt, question))
    ELSE FetchFresh

(* question || '' *)
OrEmpty(question) == IF question = Undefined \/ question = <<>> THEN <<>> ELSE question

cachedGetAIAnalysisStoreRawQuestion(prompt, question, data, ok) ==
    LET r == setCachedAIAnalysis(prompt, question, data, ok)
    IN  [cache |-> r.cache, store |-> r.store, wrote |-> r.wrote, sets |-> r.sets,
         value |-> data]

cachedGetAIAnalysisStore(prompt, question, data, ok) ==
    LET r == setCachedAIAnalysis(prompt, OrEmpty(question), data, ok)
    IN  [cache |-> r.cache, store |-> r.store, wrote |-> r.wrote, sets |-> r.sets,
         value |-> data]

-----------------------------------------------------------------------------
(* State *)

(* the caches among the given ones that hold an expired entry *)
HoldingExpired(caches) ==
    {c \in DOMAIN caches : \E k \in DOMAIN caches[c] : isExpired(caches[c][k])}

(* how many entries the given caches hold, and how many of them are expired *)
Held(caches) ==
    [entries |-> Cardinality({<<c, k>> \in UNION {{c} \X DOMAIN caches[c] : c \in DOMAIN caches} : TRUE}),
     expired |-> Cardinality({<<c, k>> \in UNION {{c} \X DOMAIN caches[c] : c \in DOMAIN caches} :
                                 isExpired(caches[c][k])})]

(* what an operation did: its result (val), whether it started an upstream
   fetch, the set calls it made, the slots it called setItem on, and
     before - for a set, what the map held for the key when the set began;
              for a reload, the store the mount effect read
     after  - for a resolved fetch, the clear or sweep that ran just before
              it, if one did
     failed - the slots on which a storage call of the operation threw *)
Op(op, cache, key, force, input, val, fetch, sets, wrote) ==
    [op |-> op, cache |-> cache, key |-> key, force |-> force, input |-> input,
     val |-> val, fetch |-> fetch, sets |-> sets, wrote |-> wrote,
     before |-> Null, after |-> Null, failed |-> {}]

Caches == {"stock", "ai", "screener"}

CacheOf(cache) ==
    CASE cache = "stock" -> stockCache
      [] cache = "ai" -> aiCache
      [] cache = "screener" -> screenerCache

SlotOf(cache) ==
    CASE cache = "stock" -> STOCK_CACHE_KEY
      [] cache = "ai" -> AI_CACHE_KEY
      [] cache = "screener" -> SCREENER_CACHE_KEY

(* absent, valid or expired: what a map holds for a key *)
EntryState(map, key) ==
    IF key \notin DOMAIN map THEN "absent"
    ELSE IF isExpired(map[key]) THEN "expired" ELSE "valid"

Interfering(op) == IF op \in {"clear", "sweep"} THEN op ELSE Null

Failed(slot, ok) == IF ok THEN {} ELSE {slot}

NoSets == [stock |-> EmptyMap, ai |-> EmptyMap, screener |-> EmptyMap]

Remember(cache, key, data) ==
    [lastSet EXCEPT ![cache] = Put(@, key, [data |-> data, at |-> now])]

(* App mounts useStockCache (and builds the facade over it); StockbitScreener
   mounts useScreenerCache.  No component of the repository mounts both, so a
   page runs one hook or the other. *)
Components == {"App", "StockbitScreener"}

OwnCaches == IF mounted = "App" THEN {"stock", "ai"} ELSE {"screener"}

(* the hook a component mounts *)
HookOf(component) == IF component = "App" THEN "useStockCache" ELSE "useScreenerCache"

(* what the App displays for a symbol: the stock analysis or the AI analysis
   carries the symbol it is about; none is displayed before the first search *)
Shown(symbol, data) == [symbol |-> symbol, data |-> data]

NothingShown == Shown(Null, Null)

(* useState(null) for analysis and aiAnalysis, and no handleSearch running;
   requested is the symbol handleSearch was last called with *)
InitApp ==
    [analysis |-> NothingShown, aiAnalysis |-> NothingShown, searches |-> <<>>,
     requested |-> Null]

(* The StockbitScreener component and the tokens of StockbitAPI.  A message
   is the sequence of its characters. *)

(* 'Please provide a valid Stockbit token first' *)
PleaseProvideMessage ==
    <<"P", "l", "e", "a", "s", "e", " ", "p", "r", "o", "v", "i", "d", "e", " ", "a",
      " ", "v", "a", "l", "i", "d", " ", "S", "t", "o", "c", "k", "b", "i", "t", " ",
      "t", "o", "k", "e", "n", " ", "f", "i", "r", "s", "t">>

(* 'No valid Stockbit token available. Please provide a valid bearer token.' *)
NoTokenMessage ==
    <<"N", "o", " ", "v", "a", "l", "i", "d", " ", "S", "t", "o", "c", "k", "b", "i",
      "t", " ", "t", "o", "k", "e", "n", " ", "a", "v", "a", "i", "l", "a", "b", "l",
      "e", ".", " ", "P", "l", "e", "a", "s", "e", " ", "p", "r", "o", "v", "i", "d",
      "e", " ", "a", " ", "v", "a", "l", "i", "d", " ", "b", "e", "a", "r", "e", "r",
      " ", "t", "o", "k", "e", "n", ".">>

(* 'Authentication token expired or invalid. Please provide a new token.' *)
UnauthorizedMessage ==
    <<"A", "u", "t", "h", "e", "n", "t", "i", "c", "a", "t", "i", "o", "n", " ", "t",
      "o", "k", "e", "n", " ", "e", "x", "p", "i", "r", "e", "d", " ", "o", "r", " ",
      "i", "n", "v", "a", "l", "i", "d", ".", " ", "P", "l", "e", "a", "s", "e", " ",
      "p", "r", "o", "v", "i", "d", "e", " ", "a", " ", "n", "e", "w", " ", "t", "o",
      "k", "e", "n", ".">>

(* 'Request failed: ${response.status} ${errorText}', for status 500 and an empty body: 'Request failed: 500 ' *)
RequestFailedMessage ==
    <<"R", "e", "q", "u", "e", "s", "t", " ", "f", "a", "i", "l", "e", "d", ":", " ",
      "5", "0", "0", " ">>

(* 'Failed to fetch screener results from Stockbit' *)
WrappedMessage ==
    <<"F", "a", "i", "l", "e", "d", " ", "t", "o", " ", "f", "e", "t", "c", "h", " ",
      "s", "c", "r", "e", "e", "n", "e", "r", " ", "r", "e", "s", "u", "l", "t", "s",
      " ", "f", "r", "o", "m", " ", "S", "t", "o", "c", "k", "b", "i", "t">>

NoError == <<>>

(* message.includes(part) *)
Includes(message, part) ==
    \E i \in 1..(Len(message) - Len(part) + 1) :
        SubSeq(message, i, i + Len(part) - 1) = part

(* the template fetchScreenerResults asks for *)
DefaultTemplateId == "4848138"

(* the tokens StockbitAPI finds in localStorage: the unexpired one under
   'stockbit_token' and the one under 'stockbit_manual_token' *)
NoTokens == {}

(* setManualToken(token) stores the token under both keys *)
setManualToken == {"stored", "manual"}

(* StockbitAPI.isAuthenticated() *)
isAuthenticated(tokens) == tokens # NoTokens

ScreenerFetch(templateId, forceRefresh) ==
    [templateId |-> templateId, forceRefresh |-> forceRefresh]

(* the catch block of getScreenerResults: whatever was thrown inside its try
   block is logged and replaced *)
getScreenerResultsCatch(message) == WrappedMessage

(* the catch block of fetchScreenerResults *)
fetchScreenerResultsCatch(s, message) ==
    [s EXCEPT !.error = message,
              !.isAuthenticated =
                  IF \/ Includes(message, <<"t", "o", "k", "e", "n">>)
                     \/ Includes(message, <<"a", "u", "t", "h">>)
                     \/ Includes(message, <<"4", "0", "1">>)
                  THEN FALSE ELSE @]

(* fetchScreenerResults(forceRefresh) in component state s, up to the await
   of the upstream fetch: it returns at once when the component is not
   authenticated; getScreenerResults returns a cached response unless forced;
   getValidToken throws when no token is found, otherwise the request is
   sent *)
fetchScreenerResults(s, forceRefresh) ==
    LET cached == IF forceRefresh THEN Null ELSE getCachedScreenerData(DefaultTemplateId)
        cleared == [s EXCEPT !.error = NoError]
    IN  IF ~s.isAuthenticated
        THEN [state |-> [s EXCEPT !.error = PleaseProvideMessage],
              outcome |-> "unauthenticated", value |-> Null]
        ELSE IF cached # Null
        THEN [state |-> cleared, outcome |-> "cached", value |-> cached]
        ELSE IF s.tokens = NoTokens
        THEN [state |-> fetchScreenerResultsCatch(cleared,
                            getScreenerResultsCatch(NoTokenMessage)),
              outcome |-> "noToken", value |-> Thrown]
        ELSE [state |-> [cleared EXCEPT !.fetches =
                            Append(@, ScreenerFetch(DefaultTemplateId, forceRefresh))],
              outcome |-> "fetch", value |-> Null]

(* the component after mounting: useState(StockbitAPI.isAuthenticated()), and
   the effect that loads the screener once when authenticated *)
mountScreener(component, tokens) ==
    LET s == [isAuthenticated |-> isAuthenticated(tokens), error |-> NoError,
              fetches |-> <<>>, tokens |-> tokens]
    IN  IF component = "StockbitScreener" /\ s.isAuthenticated
        THEN fetchScreenerResults(s, FALSE).state
        ELSE s

(* the interval the sweep effect of a hook starts at time t: its callback is
   the hook's clearExpiredEntries, first due one interval later *)
setInterval(hook, t) == [callback |-> hook, due |-> t + SWEEP_INTERVAL]

Init ==
    /\ mounted \in Components
    /\ now = 0
    /\ stockCache = EmptyMap
    /\ aiCache = EmptyMap
    /\ screenerCache = EmptyMap
    /\ localStorage = [s \in Slots |-> NoItem]
    /\ calls = <<>>
    /\ timers = {setInterval(HookOf(mounted), 0)}
    /\ app = InitApp
    /\ screener = mountScreener(mounted, NoTokens)
    /\ lastOp = Op("init", Null, Null, FALSE, Null, Null, FALSE, <<>>, {})
    /\ lastSet = NoSets

-----------------------------------------------------------------------------
(* The clock *)

Tick(t) ==
    /\ t > now
    /\ now' = t
    /\ lastSet' = [c \in DOMAIN lastSet |->
                      Restrict(lastSet[c], {k \in DOMAIN lastSet[c] :
                                               t - lastSet[c][k].at <= ConfiguredTtl(c)})]
    /\ lastOp' = Op("tick", Null, Null, FALSE, Null, Null, FALSE, <<>>, {})
    /\ UNCHANGED <<screener, app, timers, mounted, stockCache, aiCache, screenerCache, localStorage, calls>>

-----------------------------------------------------------------------------
(* Direct calls of the hooks' operations *)

GetCachedStockData(symbol) ==
    /\ mounted = "App"
    /\ lastOp' = Op("get", "stock", symbol, FALSE, Null, getCachedStockData(symbol),
                    FALSE, <<>>, {})
    /\ UNCHANGED <<screener, app, timers, mounted, now, stockCache, aiCache, screenerCache, localStorage, calls, lastSet>>

GetCachedAIAnalysis(prompt, question) ==
    /\ mounted = "App"
    /\ lastOp' = Op("get", "ai", AIKeyOfGet(prompt, question), FALSE, Null,
                    getCachedAIAnalysis(prompt, question), FALSE, <<>>, {})
    /\ UNCHANGED <<screener, app, timers, mounted, now, stockCache, aiCache, screenerCache, localStorage, calls, lastSet>>

GetCachedScreenerData(templateId) ==
    /\ mounted = "StockbitScreener"
    /\ lastOp' = Op("get", "screener", templateId, FALSE, Null,
                    getCachedScreenerData(templateId), FALSE, <<>>, {})
    /\ UNCHANGED <<screener, app, timers, mounted, now, stockCache, aiCache, screenerCache, localStorage, calls, lastSet>>

SetCachedStockData(symbol, data, ok) ==
    LET r == setCachedStockData(symbol, data, ok)
    IN  /\ mounted = "App"
        /\ stockCache' = r.cache
        /\ localStorage' = r.store
        /\ lastOp' = [Op("set", "stock", symbol, FALSE, data, Null, FALSE, r.sets, r.wrote)
                         EXCEPT !.before = EntryState(stockCache, symbol),
                                !.failed = Failed(STOCK_CACHE_KEY, ok)]
        /\ lastSet' = Remember("stock", symbol, data)
        /\ UNCHANGED <<screener, app, timers, mounted, now, aiCache, screenerCache, calls>>

SetCachedAIAnalysis(prompt, question, data, ok) ==
    LET r == setCachedAIAnalysis(prompt, question, data, ok)
    IN  /\ mounted = "App"
        /\ aiCache' = r.cache
        /\ localStorage' = r.store
        /\ lastOp' = [Op("set", "ai", AIKeyOfSet(prompt, question), FALSE, data, Null,
                          FALSE, r.sets, r.wrote)
                         EXCEPT !.before = EntryState(aiCache, AIKeyOfSet(prompt, question)),
                                !.failed = Failed(AI_CACHE_KEY, ok)]
        /\ lastSet' = Remember("ai", AIKeyOfSet(prompt, question), data)
        /\ UNCHANGED <<screener, app, timers, mounted, now, stockCache, screenerCache, calls>>

SetCachedScreenerData(templateId, data, ok) ==
    LET r == setCachedScreenerData(templateId, data, ok)
    IN  /\ mounted = "StockbitScreener"
        /\ screenerCache' = r.cache
        /\ localStorage' = r.store
        /\ lastOp' = [Op("set", "screener", templateId, FALSE, data, Null, FALSE,
                          r.sets, r.wrote)
                         EXCEPT !.before = EntryState(screenerCache, templateId),
                                !.failed = Failed(SCREENER_CACHE_KEY, ok)]
        /\ lastSet' = Remember("screener", templateId, data)
        /\ UNCHANGED <<screener, app, timers, mounted, now, stockCache, aiCache, calls>>

StockClearExpiredEntries(okStock, okAi) ==
    LET r == stockClearExpiredEntries(okStock, okAi)
    IN  /\ mounted = "App"
        /\ stockCache' = r.stockCache
        /\ aiCache' = r.aiCache
        /\ localStorage' = r.store
        /\ lastOp' = [Op("sweep", "useStockCache", Null, FALSE,
                          HoldingExpired([stock |-> stockCache, ai |-> aiCache]),
                          Null, FALSE, <<>>, r.wrote)
                         EXCEPT !.failed = r.wrote \cap (Failed(STOCK_CACHE_KEY, okStock)
                                                          \cup Failed(AI_CACHE_KEY, okAi))]
        /\ UNCHANGED <<screener, app, timers, mounted, now, screenerCache, calls, lastSet>>

ScreenerClearExpiredEntries(ok) ==
    LET r == screenerClearExpiredEntries(ok)
    IN  /\ mounted = "StockbitScreener"
        /\ screenerCache' = r.cache
        /\ localStorage' = r.store
        /\ lastOp' = [Op("sweep", "useScreenerCache", Null, FALSE,
                          HoldingExpired([screener |-> screenerCache]),
                          Null, FALSE, <<>>, r.wrote)
                         EXCEPT !.failed = r.wrote \cap Failed(SCREENER_CACHE_KEY, ok)]
        /\ UNCHANGED <<screener, app, timers, mounted, now, stockCache, aiCache, calls, lastSet>>

StockClearCacheCancellingCalls(okStock, okAi) ==
    LET r == stockClearCache(okStock, okAi)
    IN  /\ mounted = "App"
        /\ stockCache' = r.stockCache
        /\ aiCache' = r.aiCache
        /\ localStorage' = r.store
        /\ lastOp' = [Op("clear", "useStockCache", Null, FALSE,
                          Held([stock |-> stockCache, ai |-> aiCache]),
                          r.value, FALSE, <<>>, {})
                         EXCEPT !.failed = r.failed]
        /\ lastSet' = [lastSet EXCEPT !.stock = EmptyMap, !.ai = EmptyMap]
        /\ calls' = <<>>
        /\ UNCHANGED <<screener, app, timers, mounted, now, screenerCache>>

StockClearCache(okStock, okAi) ==
    LET r == stockClearCache(okStock, okAi)
    IN  /\ mounted = "App"
        /\ stockCache' = r.stockCache
        /\ aiCache' = r.aiCache
        /\ localStorage' = r.store
        /\ lastOp' = [Op("clear", "useStockCache", Null, FALSE,
                          Held([stock |-> stockCache, ai |-> aiCache]),
                          r.value, FALSE, <<>>, {})
                         EXCEPT !.failed = r.failed]
        /\ lastSet' = [lastSet EXCEPT !.stock = EmptyMap, !.ai = EmptyMap]
        /\ UNCHANGED <<screener, app, timers, mounted, now, screenerCache, calls>>

ScreenerClearCache(ok) ==
    LET r == screenerClearCache(ok)
    IN  /\ mounted = "StockbitScreener"
        /\ screenerCache' = r.cache
        /\ localStorage' = r.store
        /\ lastOp' = [Op("clear", "useScreenerCache", Null, FALSE,
                          Held([screener |-> screenerCache]),
                          r.value, FALSE, <<>>, {})
                         EXCEPT !.failed = r.failed]
        /\ lastSet' = [lastSet EXCEPT !.screener = EmptyMap]
        /\ UNCHANGED <<screener, app, timers, mounted, now, stockCache, aiCache, calls>>

(* getCacheStats of the two hooks: the operation returns the record of
   counts *)
StockGetCacheStats ==
    /\ mounted = "App"
    /\ lastOp' = Op("stats", "useStockCache", Null, FALSE, Null, stockGetCacheStats,
                    FALSE, <<>>, {})
    /\ UNCHANGED <<screener, app, timers, mounted, now, stockCache, aiCache, screenerCache, localStorage, calls, lastSet>>

ScreenerGetCacheStats ==
    /\ mounted = "StockbitScreener"
    /\ lastOp' = Op("stats", "useScreenerCache", Null, FALSE, Null, screenerGetCacheStats,
                    FALSE, <<>>, {})
    /\ UNCHANGED <<screener, app, timers, mounted, now, stockCache, aiCache, screenerCache, localStorage, calls, lastSet>>

(* A page reload: the in-memory maps, the suspended calls and the intervals
   are gone, the hook mounts again, hydrates from localStorage and starts its
   sweep interval.  The operation records
   the caches whose slot held text that JSON.parse rejects, and the store it
   read. *)
Mount(store) ==
    /\ mounted \in Components
    /\ IF mounted = "App"
       THEN LET r == useStockCacheMount(store)
            IN  /\ stockCache' = r.stockCache
                /\ aiCache' = r.aiCache
                /\ localStorage' = r.store
                /\ UNCHANGED screenerCache
       ELSE LET r == useScreenerCacheMount(store)
            IN  /\ screenerCache' = r.cache
                /\ localStorage' = r.store
                /\ UNCHANGED <<stockCache, aiCache>>
    /\ calls' = <<>>
    /\ timers' = {setInterval(HookOf(mounted), now)}
    /\ app' = InitApp
    /\ screener' = mountScreener(mounted, screener.tokens)
    /\ lastOp' = [Op("reload", Null, Null, FALSE,
                     {c \in OwnCaches : ParseThrows(store[SlotOf(c)])},
                     Null, FALSE, <<>>, {})
                     EXCEPT !.before = store]
    /\ lastSet' = NoSets
    /\ UNCHANGED <<mounted, now>>

Reload == Mount(localStorage)

-----------------------------------------------------------------------------
(* The sweep interval of a hook, and the unmount of its component *)

(* no component is mounted: the page has navigated away from it *)
Unmounted == "unmounted"

(* the clock advances to t with every interval firing on time: it does not
   pass the time an interval is due at *)
TickOnTime(t) ==
    /\ \A tm \in timers : t <= tm.due
    /\ Tick(t)

IntervalFiresOnce(ok) ==
    \E tm \in timers :
        /\ tm.due = now
        /\ timers' = timers \ {tm}
        /\ IF tm.callback = "useStockCache"
           THEN LET r == stockClearExpiredEntries(ok, ok)
                IN  /\ stockCache' = r.stockCache
                    /\ aiCache' = r.aiCache
                    /\ localStorage' = r.store
                    /\ lastOp' = Op("sweep", "useStockCache", Null, FALSE,
                                    HoldingExpired([stock |-> stockCache, ai |-> aiCache]),
                                    Null, FALSE, <<>>, r.wrote)
                    /\ UNCHANGED screenerCache
           ELSE LET r == screenerClearExpiredEntries(ok)
                IN  /\ screenerCache' = r.cache
                    /\ localStorage' = r.store
                    /\ lastOp' = Op("sweep", "useScreenerCache", Null, FALSE,
                                    HoldingExpired([screener |-> screenerCache]),
                                    Null, FALSE, <<>>, r.wrote)
                    /\ UNCHANGED <<stockCache, aiCache>>
        /\ UNCHANGED <<screener, app, mounted, now, calls, lastSet>>

(* An interval is due: its callback, the clearExpiredEntries of its hook,
   runs (whether or not the component is still mounted), and the interval is
   due again one period later. *)
IntervalFires(ok) ==
    \E tm \in timers :
        /\ tm.due = now
        /\ timers' = (timers \ {tm}) \cup {[tm EXCEPT !.due = now + SWEEP_INTERVAL]}
        /\ IF tm.callback = "useStockCache"
           THEN LET r == stockClearExpiredEntries(ok, ok)
                IN  /\ stockCache' = r.stockCache
                    /\ aiCache' = r.aiCache
                    /\ localStorage' = r.store
                    /\ lastOp' = [Op("sweep", "useStockCache", Null, FALSE,
                                      HoldingExpired([stock |-> stockCache, ai |-> aiCache]),
                                      Null, FALSE, <<>>, r.wrote)
                                     EXCEPT !.failed = r.wrote \cap
                                                (Failed(STOCK_CACHE_KEY, ok)
                                                    \cup Failed(AI_CACHE_KEY, ok))]
                    /\ UNCHANGED screenerCache
           ELSE LET r == screenerClearExpiredEntries(ok)
                IN  /\ screenerCache' = r.cache
                    /\ localStorage' = r.store
                    /\ lastOp' = [Op("sweep", "useScreenerCache", Null, FALSE,
                                      HoldingExpired([screener |-> screenerCache]),
                                      Null, FALSE, <<>>, r.wrote)
                                     EXCEPT !.failed = r.wrote \cap Failed(SCREENER_CACHE_KEY, ok)]
                    /\ UNCHANGED <<stockCache, aiCache>>
        /\ UNCHANGED <<screener, app, mounted, now, calls, lastSet>>

UnmountLeavingInterval ==
    /\ mounted \in Components
    /\ mounted' = Unmounted
    /\ lastOp' = Op("unmount", HookOf(mounted), Null, FALSE, Null, Null, FALSE, <<>>, {})
    /\ UNCHANGED <<screener, app, timers, now, stockCache, aiCache, screenerCache, localStorage, calls, lastSet>>

(* The component unmounts: the cleanup of the sweep effect clears the
   interval of the hook. *)
Unmount ==
    /\ mounted \in Components
    /\ mounted' = Unmounted
    /\ timers' = {tm \in timers : tm.callback # HookOf(mounted)}
    /\ lastOp' = Op("unmount", HookOf(mounted), Null, FALSE, Null, Null, FALSE, <<>>, {})
    /\ UNCHANGED <<screener, app, now, stockCache, aiCache, screenerCache, localStorage, calls, lastSet>>

-----------------------------------------------------------------------------
(* The store outside the hooks' control *)

(* the data field that a parsed entry does not have *)
NoData == "undefined"

KeysOf(cache) ==
    CASE cache = "stock" -> <<"AAPL", "MSFT">>
      [] cache = "ai" -> <<AIKeyOfSet(<<"AAPL">>, <<"q1">>), AIKeyOfSet(<<"AAPL">>, <<>>)>>
      [] cache = "screener" -> <<"4848138", "4848139">>

(* entries that miss one of the three fields *)
MalformedEntries(cache) ==
    {[data |-> "bundleB", timestamp |-> Missing, ttl |-> ConfiguredTtl(cache)],
     [data |-> "bundleB", timestamp |-> 0, ttl |-> Missing],
     [data |-> NoData, timestamp |-> 0, ttl |-> ConfiguredTtl(cache)]}

(* what a slot can hold that its hook did not write: a text JSON.parse
   rejects, or the JSON text of a map with one well-formed entry, stored at
   time 0, and one entry that misses a field *)
ForeignItems(cache) ==
    {CorruptItem} \cup
    {JSONstringify(Put(Put(EmptyMap, KeysOf(cache)[1],
                           [data |-> "bundleA", timestamp |-> 0,
                            ttl |-> ConfiguredTtl(cache)]),
                       KeysOf(cache)[2], bad)) : bad \in MalformedEntries(cache)}

(* A page reload during which the slot of one of the page's caches came to
   hold foreign content (the disk, the user or another script of the origin
   changed it while the page was closed) *)
ReloadOverForeign(cache, item) ==
    /\ cache \in OwnCaches
    /\ Mount([localStorage EXCEPT ![SlotOf(cache)] = item])

-----------------------------------------------------------------------------
(* The RecentSearches component of the App *)

(* key.startsWith(`${symbol}:`) *)
StartsWithSymbol(key, symbol) == Len(key) >= 2 /\ key[1] = symbol /\ key[2] = ":"

(* the keys removeFromRecentSearches deletes from the parsed map of a slot:
   the symbol itself in the stock slot, the keys that start with the symbol
   and the separator in the AI slot *)
Deleted(slot, key, symbol) ==
    IF slot = STOCK_CACHE_KEY THEN key = symbol ELSE StartsWithSymbol(key, symbol)

(* One of the two try blocks of removeFromRecentSearches: read the slot; if
   it holds an item, parse it, delete the symbol's keys and write it back.  A
   throw of JSON.parse or of setItem (ok = FALSE) is caught and logged. *)
RewriteSlotWithout(store, slot, symbol, ok) ==
    LET item == store[slot]
        parsed == JSONparse(item)
    IN  IF ~Truthy(item) \/ ParseThrows(item)
        THEN [store |-> store, wrote |-> {}]
        ELSE [store |-> saveToLocalStorage(store, slot,
                            Restrict(parsed, {k \in DOMAIN parsed : ~Deleted(slot, k, symbol)}),
                            ok),
              wrote |-> {slot}]

(* removeFromRecentSearches: besides dropping the symbol from the component's
   own lists (kept under the keys 'recentSearches' and 'recentSearchesData',
   which no cache reads), it rewrites the slots of the stock and the AI cache
   without the symbol's entries.  The maps in memory are not touched. *)
removeFromRecentSearches(symbol, okStock, okAi) ==
    LET s1 == RewriteSlotWithout(localStorage, STOCK_CACHE_KEY, symbol, okStock)
        s2 == RewriteSlotWithout(s1.store, AI_CACHE_KEY, symbol, okAi)
    IN  [store |-> s2.store, wrote |-> s1.wrote \cup s2.wrote]

RemoveFromRecentSearches(symbol, okStock, okAi) ==
    LET r == removeFromRecentSearches(symbol, okStock, okAi)
    IN  /\ mounted = "App"
        /\ localStorage' = r.store
        /\ lastOp' = [Op("removeFromRecentSearches", "RecentSearches", symbol, FALSE, Null,
                          Null, FALSE, <<>>, r.wrote)
                         EXCEPT !.failed = r.wrote \cap (Failed(STOCK_CACHE_KEY, okStock)
                                                          \cup Failed(AI_CACHE_KEY, okAi))]
        /\ UNCHANGED <<screener, app, timers, mounted, now, stockCache, aiCache, screenerCache, calls, lastSet>>

-----------------------------------------------------------------------------
(* Facade calls *)

SlotOfFn(fn) == IF fn = "stock" THEN STOCK_CACHE_KEY ELSE AI_CACHE_KEY

Call(fn, key, args, forceRefresh) ==
    [fn |-> fn, key |-> key, args |-> args, forceRefresh |-> forceRefresh]

Without(seq, i) == SubSeq(seq, 1, i - 1) \o SubSeq(seq, i + 1, Len(seq))

CachedGetStockData(symbol, forceRefresh) ==
    LET c == cachedGetStockDataCheck(symbol, forceRefresh)
    IN  /\ mounted = "App"
        /\ IF c.return
           THEN /\ calls' = calls
                /\ lastOp' = Op("call", "stock", symbol, forceRefresh, Null, c.value,
                                FALSE, <<>>, {})
           ELSE /\ Len(calls) < MaxCalls
                /\ calls' = Append(calls, Call("stock", symbol, <<symbol>>, forceRefresh))
                /\ lastOp' = Op("call", "stock", symbol, forceRefresh, Null, Null,
                                TRUE, <<>>, {})
        /\ UNCHANGED <<screener, app, timers, mounted, now, stockCache, aiCache, screenerCache, localStorage, lastSet>>

CachedGetAIAnalysis(prompt, question, forceRefresh) ==
    LET c == cachedGetAIAnalysisCheck(prompt, question, forceRefresh)
        key == AIKeyOfGet(prompt, question)
    IN  /\ mounted = "App"
        /\ IF c.return
           THEN /\ calls' = calls
                /\ lastOp' = Op("call", "ai", key, forceRefresh, Null, c.value,
                                FALSE, <<>>, {})
           ELSE /\ Len(calls) < MaxCalls
                /\ calls' = Append(calls, Call("ai", key, <<prompt, question>>, forceRefresh))
                /\ lastOp' = Op("call", "ai", key, forceRefresh, Null, Null,
                                TRUE, <<>>, {})
        /\ UNCHANGED <<screener, app, timers, mounted, now, stockCache, aiCache, screenerCache, localStorage, lastSet>>

(* the upstream fetch of call i resolves with data *)
FetchResolves(i, data, ok) ==
    /\ i \in 1..Len(calls)
    /\ LET c == calls[i]
       IN  IF c.fn = "stock"
           THEN LET r == cachedGetStockDataStore(c.args[1], data, ok)
                IN  /\ stockCache' = r.cache
                    /\ aiCache' = aiCache
                    /\ localStorage' = r.store
                    /\ lastOp' = [Op("resolve", c.fn, c.key, c.forceRefresh, data, r.value,
                                      FALSE, r.sets, r.wrote)
                                     EXCEPT !.after = Interfering(lastOp.op),
                                            !.failed = Failed(SlotOfFn(c.fn), ok)]
                    /\ lastSet' = [lastSet EXCEPT !.stock =
                                      [k \in DOMAIN @ \cup {r.sets[n].key : n \in 1..Len(r.sets)} |->
                                          IF \E n \in 1..Len(r.sets) : r.sets[n].key = k
                                          THEN [data |-> r.sets[Len(r.sets)].data, at |-> now]
                                          ELSE @[k]]]
           ELSE LET r == cachedGetAIAnalysisStore(c.args[1], c.args[2], data, ok)
                IN  /\ aiCache' = r.cache
                    /\ stockCache' = stockCache
                    /\ localStorage' = r.store
                    /\ lastOp' = [Op("resolve", c.fn, c.key, c.forceRefresh, data, r.value,
                                      FALSE, r.sets, r.wrote)
                                     EXCEPT !.after = Interfering(lastOp.op),
                                            !.failed = Failed(SlotOfFn(c.fn), ok)]
                    /\ lastSet' = [lastSet EXCEPT !.ai =
                                      [k \in DOMAIN @ \cup {r.sets[n].key : n \in 1..Len(r.sets)} |->
                                          IF \E n \in 1..Len(r.sets) : r.sets[n].key = k
                                          THEN [data |-> r.sets[Len(r.sets)].data, at |-> now]
                                          ELSE @[k]]]
    /\ calls' = Without(calls, i)
    /\ UNCHANGED <<screener, app, timers, mounted, now, screenerCache>>

FetchRejectsCachingAbsent(i) ==
    /\ i \in 1..Len(calls)
    /\ calls' = Without(calls, i)
    /\ lastOp' = Op("reject", calls[i].fn, calls[i].key, calls[i].forceRefresh, Null, Thrown,
                    FALSE, <<>>, {})
    /\ IF calls[i].fn = "stock"
       THEN /\ stockCache' = Put(stockCache, calls[i].key,
                                 [data |-> Null, timestamp |-> now, ttl |-> CACHE_TTL])
            /\ aiCache' = aiCache
       ELSE /\ aiCache' = Put(aiCache, calls[i].key,
                              [data |-> Null, timestamp |-> now, ttl |-> CACHE_TTL])
            /\ stockCache' = stockCache
    /\ UNCHANGED <<screener, app, timers, mounted, now, screenerCache, localStorage, lastSet>>

FetchRejectsStayingInFlight(i) ==
    /\ i \in 1..Len(calls)
    /\ calls' = calls
    /\ lastOp' = Op("reject", calls[i].fn, calls[i].key, calls[i].forceRefresh, Null, Thrown,
                    FALSE, <<>>, {})
    /\ UNCHANGED <<screener, app, timers, mounted, now, stockCache, aiCache, screenerCache, localStorage, lastSet>>

(* the upstream fetch of call i rejects: the rejection leaves the facade *)
FetchRejects(i) ==
    /\ i \in 1..Len(calls)
    /\ calls' = Without(calls, i)
    /\ lastOp' = Op("reject", calls[i].fn, calls[i].key, calls[i].forceRefresh, Null, Thrown,
                    FALSE, <<>>, {})
    /\ UNCHANGED <<screener, app, timers, mounted, now, stockCache, aiCache, screenerCache, localStorage, lastSet>>

-----------------------------------------------------------------------------
(* The App's handlers *)

(* the question handleSearch asks the AI about every symbol *)
AnalysisQuestion == <<"q1">>

Search(symbol, pc) == [symbol |-> symbol, pc |-> pc]

(* the part of handleSearch from setIsLoadingAI(true) on, when the stock
   analysis of the symbol is known: cachedApi.getAIAnalysis(symbol, question)
   returns the cached answer, which is displayed, or starts its fetch and the
   handler waits.  rest is the handler's other calls in flight. *)
askAI(symbol, analysis, aiAnalysis, rest) ==
    LET c == cachedGetAIAnalysisCheck(<<symbol>>, AnalysisQuestion, FALSE)
    IN  IF c.return
        THEN [app EXCEPT !.analysis = analysis, !.aiAnalysis = Shown(symbol, c.value),
                         !.searches = rest]
        ELSE [app EXCEPT !.analysis = analysis, !.aiAnalysis = aiAnalysis,
                         !.searches = Append(rest, Search(symbol, "ai"))]

(* handleSearch(symbol) up to its first await that suspends: the display is
   cleared; a cached stock analysis is displayed without a fetch, otherwise
   cachedApi.getStockData(symbol) is called without forceRefresh and, the
   lookup having just missed, starts the upstream fetch *)
handleSearch(symbol) ==
    LET cached == getCachedStockData(symbol)
    IN  IF cached # Null
        THEN askAI(symbol, Shown(symbol, cached), NothingShown, app.searches)
        ELSE [app EXCEPT !.analysis = NothingShown, !.aiAnalysis = NothingShown,
                         !.searches = Append(@, Search(symbol, "stock"))]

Searching(op, symbol, a) ==
    /\ mounted = "App"
    /\ Len(a.searches) <= MaxCalls
    /\ app' = [a EXCEPT !.requested = symbol]
    /\ lastOp' = Op(op, "stock", symbol, FALSE, Null, getCachedStockData(symbol),
                    \E n \in 1..Len(a.searches) : a.searches[n] = Search(symbol, "stock")
                                                    /\ n > Len(app.searches),
                    <<>>, {})
    /\ UNCHANGED <<screener, timers, mounted, now, stockCache, aiCache, screenerCache, localStorage,
                   calls, lastSet>>

(* the search bar, the watchlist or a recent search calls handleSearch *)
HandleSearch(symbol) == Searching("handleSearch", symbol, handleSearch(symbol))

(* the Refresh button of the cache status: handleForceRefresh returns when
   no analysis is displayed, and otherwise awaits handleSearch of the
   displayed symbol *)
HandleForceRefresh ==
    /\ app.analysis # NothingShown
    /\ Searching("handleForceRefresh", app.analysis.symbol, handleSearch(app.analysis.symbol))

(* the upstream fetch that search i waits for resolves with data: the facade
   stores it and returns it, and handleSearch displays it; after the stock
   analysis the handler goes on to the AI analysis *)
SearchResolves(i, data) ==
    /\ i \in 1..Len(app.searches)
    /\ LET s == app.searches[i]
           rest == Without(app.searches, i)
       IN  IF s.pc = "stock"
           THEN LET r == cachedGetStockDataStore(s.symbol, data, TRUE)
                IN  /\ stockCache' = r.cache
                    /\ aiCache' = aiCache
                    /\ localStorage' = r.store
                    /\ app' = askAI(s.symbol, Shown(s.symbol, data), app.aiAnalysis, rest)
                    /\ lastSet' = Remember("stock", s.symbol, data)
                    /\ lastOp' = Op("searchResolves", "stock", s.symbol, FALSE, data, r.value,
                                    FALSE, r.sets, r.wrote)
           ELSE LET r == cachedGetAIAnalysisStore(<<s.symbol>>, AnalysisQuestion, data, TRUE)
                IN  /\ aiCache' = r.cache
                    /\ stockCache' = stockCache
                    /\ localStorage' = r.store
                    /\ app' = [app EXCEPT !.aiAnalysis = Shown(s.symbol, data),
                                          !.searches = rest]
                    /\ lastSet' = Remember("ai", AIKeyOfSet(<<s.symbol>>, AnalysisQuestion), data)
                    /\ lastOp' = Op("searchResolves", "ai", s.symbol, FALSE, data, r.value,
                                    FALSE, r.sets, r.wrote)
    /\ UNCHANGED <<screener, timers, mounted, now, screenerCache, calls>>

(* the fetch rejects: a failed stock fetch ends the handler in its catch
   block, a failed AI fetch is logged; the display is left as it is *)
SearchRejects(i) ==
    /\ i \in 1..Len(app.searches)
    /\ app' = [app EXCEPT !.searches = Without(@, i)]
    /\ lastOp' = Op("searchRejects", app.searches[i].pc, app.searches[i].symbol, FALSE, Null,
                    Thrown, FALSE, <<>>, {})
    /\ UNCHANGED <<screener, timers, mounted, now, stockCache, aiCache, screenerCache, localStorage,
                   calls, lastSet>>

-----------------------------------------------------------------------------
(* The StockbitScreener's handlers *)

Fetching(s, forceRefresh) ==
    LET r == fetchScreenerResults(s, forceRefresh)
    IN  /\ mounted = "StockbitScreener"
        /\ Len(r.state.fetches) <= MaxCalls
        /\ screener' = r.state
        /\ lastOp' = Op("fetchScreenerResults", "screener", DefaultTemplateId, forceRefresh,
                        r.outcome, r.value, r.outcome = "fetch", <<>>, {})
        /\ UNCHANGED <<app, timers, mounted, now, stockCache, aiCache, screenerCache,
                       localStorage, calls, lastSet>>

(* the Refresh buttons: handleRefresh forces, the button of the header does
   not *)
FetchScreenerResults(forceRefresh) == Fetching(screener, forceRefresh)

(* the token form, shown while the component is not authenticated: the token
   is stored, handleTokenSet reads StockbitAPI.isAuthenticated(), and the
   effect on isAuthenticated loads the screener *)
HandleTokenSet ==
    /\ ~screener.isAuthenticated
    /\ Fetching([screener EXCEPT !.tokens = setManualToken,
                                 !.isAuthenticated = isAuthenticated(setManualToken),
                                 !.error = NoError], FALSE)

(* the Change Token button: StockbitAPI.clearToken(); setIsAuthenticated(false) *)
ChangeToken ==
    /\ mounted = "StockbitScreener"
    /\ screener.isAuthenticated
    /\ screener' = [screener EXCEPT !.tokens = NoTokens, !.isAuthenticated = FALSE]
    /\ lastOp' = Op("clearToken", "screener", Null, FALSE, Null, Null, FALSE, <<>>, {})
    /\ UNCHANGED <<app, timers, mounted, now, stockCache, aiCache, screenerCache,
                   localStorage, calls, lastSet>>

(* the tokens leave localStorage without the component: another tab of the
   application calls clearToken *)
ClearTokenElsewhere ==
    /\ mounted = "StockbitScreener"
    /\ screener.tokens # NoTokens
    /\ screener' = [screener EXCEPT !.tokens = NoTokens]
    /\ lastOp' = Op("clearTokenElsewhere", "screener", Null, FALSE, Null, Null, FALSE,
                    <<>>, {})
    /\ UNCHANGED <<app, timers, mounted, now, stockCache, aiCache, screenerCache,
                   localStorage, calls, lastSet>>

(* the backend answers request i.  200: the response is cached and returned.
   401: the stored token is removed and an error thrown.  Any other status:
   an error is thrown.  Both errors pass through the catch block of
   getScreenerResults into the catch block of fetchScreenerResults. *)
ScreenerResponds(i, status, data) ==
    /\ i \in 1..Len(screener.fetches)
    /\ LET f == screener.fetches[i]
           done == [screener EXCEPT !.fetches = Without(@, i)]
       IN  IF status = "200"
           THEN LET r == setCachedScreenerData(f.templateId, data, TRUE)
                IN  /\ screenerCache' = r.cache
                    /\ localStorage' = r.store
                    /\ screener' = done
                    /\ lastSet' = Remember("screener", f.templateId, data)
                    /\ lastOp' = Op("screenerResponse", "screener", f.templateId,
                                    f.forceRefresh, status, data, FALSE, r.sets, r.wrote)
           ELSE /\ screener' =
                       IF status = "401"
                       THEN fetchScreenerResultsCatch(
                                [done EXCEPT !.tokens = @ \ {"stored"}],
                                getScreenerResultsCatch(UnauthorizedMessage))
                       ELSE fetchScreenerResultsCatch(
                                done, getScreenerResultsCatch(RequestFailedMessage))
                /\ lastOp' = Op("screenerResponse", "screener", f.templateId,
                                f.forceRefresh, status, Thrown, FALSE, <<>>, {})
                /\ UNCHANGED <<screenerCache, localStorage, lastSet>>
    /\ UNCHANGED <<app, timers, mounted, now, stockCache, aiCache, calls>>

-----------------------------------------------------------------------------
(* The cache instances, called directly; every setItem succeeds *)

Next ==
    \/ \E t \in Instants : Tick(t)
    \/ \E symbol \in Symbols : GetCachedStockData(symbol)
    \/ \E prompt \in Prompts, question \in Questions : GetCachedAIAnalysis(prompt, question)
    \/ \E templateId \in TemplateIds : GetCachedScreenerData(templateId)
    \/ \E symbol \in Symbols, data \in Data : SetCachedStockData(symbol, data, TRUE)
    \/ \E prompt \in Prompts, question \in Questions \ {Undefined}, data \in Data :
          SetCachedAIAnalysis(prompt, question, data, TRUE)
    \/ \E templateId \in TemplateIds, data \in Data :
          SetCachedScreenerData(templateId, data, TRUE)
    \/ StockClearExpiredEntries(TRUE, TRUE)
    \/ ScreenerClearExpiredEntries(TRUE)
    \/ StockClearCache(TRUE, TRUE)
    \/ ScreenerClearCache(TRUE)
    \/ Reload

Spec == Init /\ [][Next]_vars

(* The facade of the App over its stock and AI caches, with the sweeper and
   clear; every setItem succeeds *)

InitFacade == Init /\ mounted = "App"

NextFacade ==
    \/ \E t \in FacadeInstants : Tick(t)
    \/ \E symbol \in FacadeSymbols, forceRefresh \in BOOLEAN :
          CachedGetStockData(symbol, forceRefresh)
    \/ \E prompt \in Prompts, question \in Questions, forceRefresh \in BOOLEAN :
          CachedGetAIAnalysis(prompt, question, forceRefresh)
    \/ \E i \in 1..MaxCalls, data \in Data : FetchResolves(i, data, TRUE)
    \/ \E i \in 1..MaxCalls : FetchRejects(i)
    \/ StockClearExpiredEntries(TRUE, TRUE)
    \/ StockClearCache(TRUE, TRUE)

SpecFacade == InitFacade /\ [][NextFacade]_vars

(* The cache instances under storage faults: setItem and removeItem may
   throw *)

FaultInstants == {0, 10 * 60 * 1000, 15 * 60 * 1000 + 1}

NextFault ==
    \/ \E t \in FaultInstants : Tick(t)
    \/ \E symbol \in Symbols : GetCachedStockData(symbol)
    \/ \E prompt \in Prompts, question \in Questions : GetCachedAIAnalysis(prompt, question)
    \/ \E templateId \in TemplateIds : GetCachedScreenerData(templateId)
    \/ \E symbol \in FacadeSymbols, data \in Data, ok \in BOOLEAN :
          SetCachedStockData(symbol, data, ok)
    \/ \E prompt \in Prompts, question \in Questions \ {Undefined}, data \in Data,
          ok \in BOOLEAN :
          SetCachedAIAnalysis(prompt, question, data, ok)
    \/ \E templateId \in TemplateIds, data \in Data, ok \in BOOLEAN :
          SetCachedScreenerData(templateId, data, ok)
    \/ \E okStock \in BOOLEAN, okAi \in BOOLEAN : StockClearExpiredEntries(okStock, okAi)
    \/ \E ok \in BOOLEAN : ScreenerClearExpiredEntries(ok)
    \/ \E okStock \in BOOLEAN, okAi \in BOOLEAN : StockClearCache(okStock, okAi)
    \/ \E ok \in BOOLEAN : ScreenerClearCache(ok)
    \/ Reload

SpecFault == Init /\ [][NextFault]_vars

(* The cache instances over a store that may hold foreign content when the
   hook mounts; every setItem and removeItem succeeds *)

NextForeign ==
    \/ \E t \in FaultInstants : Tick(t)
    \/ \E symbol \in Symbols : GetCachedStockData(symbol)
    \/ \E prompt \in Prompts, question \in Questions : GetCachedAIAnalysis(prompt, question)
    \/ \E templateId \in TemplateIds : GetCachedScreenerData(templateId)
    \/ \E symbol \in FacadeSymbols, data \in Data : SetCachedStockData(symbol, data, TRUE)
    \/ \E prompt \in Prompts, question \in Questions \ {Undefined}, data \in Data :
          SetCachedAIAnalysis(prompt, question, data, TRUE)
    \/ \E templateId \in TemplateIds, data \in Data :
          SetCachedScreenerData(templateId, data, TRUE)
    \/ StockClearExpiredEntries(TRUE, TRUE)
    \/ ScreenerClearExpiredEntries(TRUE)
    \/ StockClearCache(TRUE, TRUE)
    \/ ScreenerClearCache(TRUE)
    \/ \E cache \in Caches : \E item \in ForeignItems(cache) : ReloadOverForeign(cache, item)
    \/ Reload

SpecForeign == Init /\ [][NextForeign]_vars

(* The App with its RecentSearches component: the stock and AI caches called
   directly, the removal of a recent search, the sweeper and reloads; every
   setItem succeeds *)

NextApp ==
    \/ \E t \in FacadeInstants : Tick(t)
    \/ \E symbol \in Symbols : GetCachedStockData(symbol)
    \/ \E prompt \in Prompts, question \in Questions : GetCachedAIAnalysis(prompt, question)
    \/ \E symbol \in Symbols, data \in Data : SetCachedStockData(symbol, data, TRUE)
    \/ \E prompt \in Prompts, question \in Questions \ {Undefined}, data \in Data :
          SetCachedAIAnalysis(prompt, question, data, TRUE)
    \/ \E symbol \in Symbols : RemoveFromRecentSearches(symbol, TRUE, TRUE)
    \/ StockClearExpiredEntries(TRUE, TRUE)
    \/ Reload

SpecApp == InitFacade /\ [][NextApp]_vars

KeyInstants == {0, 10 * 60 * 1000 + 1}

(* The facade with calls in flight across the sweeper, clear and the clock *)

NextInFlight ==
    \/ \E t \in KeyInstants : Tick(t)
    \/ \E symbol \in FacadeSymbols, forceRefresh \in BOOLEAN :
          CachedGetStockData(symbol, forceRefresh)
    \/ \E prompt \in Prompts : CachedGetAIAnalysis(prompt, <<"q1">>, FALSE)
    \/ \E i \in 1..MaxCalls, data \in Data : FetchResolves(i, data, TRUE)
    \/ \E i \in 1..MaxCalls : FetchRejects(i)
    \/ StockClearExpiredEntries(TRUE, TRUE)
    \/ StockClearCache(TRUE, TRUE)

SpecInFlight == InitFacade /\ [][NextInFlight]_vars

(* The App searching and refreshing, with rejections and the clock *)

NextSearch ==
    \/ \E t \in KeyInstants : Tick(t)
    \/ \E symbol \in Symbols : HandleSearch(symbol)
    \/ HandleForceRefresh
    \/ \E i \in 1..MaxCalls, data \in Data : SearchResolves(i, data)
    \/ \E i \in 1..MaxCalls : SearchRejects(i)

SpecSearch == InitFacade /\ [][NextSearch]_vars

(* The App searching while earlier searches are in flight, every upstream
   fetch resolving *)

NextOverlap ==
    \/ \E t \in KeyInstants : Tick(t)
    \/ \E symbol \in Symbols : HandleSearch(symbol)
    \/ \E i \in 1..MaxCalls, data \in Data : SearchResolves(i, data)

SpecOverlap == InitFacade /\ [][NextOverlap]_vars

(* The screener component with its tokens, the backend's answers and the
   clock *)

Statuses == {"200", "401", "500"}

InitScreener == Init /\ mounted = "StockbitScreener"

NextScreener ==
    \/ \E t \in Instants : Tick(t)
    \/ \E forceRefresh \in BOOLEAN : FetchScreenerResults(forceRefresh)
    \/ HandleTokenSet
    \/ ChangeToken
    \/ ClearTokenElsewhere
    \/ \E i \in 1..MaxCalls, status \in Statuses, data \in Data :
          ScreenerResponds(i, status, data)
    \/ ScreenerClearCache(TRUE)
    \/ Reload

SpecScreener == InitScreener /\ [][NextScreener]_vars

(* The stock function of the facade when upstream fetches all settle: the
   fetch of every call in flight, whatever its position among the calls,
   eventually resolves or rejects *)

NextSettling ==
    \/ \E t \in KeyInstants : Tick(t)
    \/ \E symbol \in FacadeSymbols, forceRefresh \in BOOLEAN :
          CachedGetStockData(symbol, forceRefresh)
    \/ \E i \in 1..MaxCalls, data \in Data : FetchResolves(i, data, TRUE)
    \/ \E i \in 1..MaxCalls : FetchRejects(i)
    \/ StockClearExpiredEntries(TRUE, TRUE)
    \/ StockClearCache(TRUE, TRUE)

Settles(i) == (\E data \in Data : FetchResolves(i, data, TRUE)) \/ FetchRejects(i)

SpecSettling ==
    InitFacade /\ [][NextSettling]_vars /\ \A i \in 1..MaxCalls : WF_vars(Settles(i))

(* The cache instances with their statistics *)

NextStats ==
    \/ \E t \in KeyInstants : Tick(t)
    \/ \E symbol \in Symbols, data \in Data : SetCachedStockData(symbol, data, TRUE)
    \/ \E prompt \in Prompts, question \in Questions \ {Undefined}, data \in Data :
          SetCachedAIAnalysis(prompt, question, data, TRUE)
    \/ \E templateId \in TemplateIds, data \in Data :
          SetCachedScreenerData(templateId, data, TRUE)
    \/ StockClearExpiredEntries(TRUE, TRUE)
    \/ ScreenerClearExpiredEntries(TRUE)
    \/ StockClearCache(TRUE, TRUE)
    \/ ScreenerClearCache(TRUE)
    \/ StockGetCacheStats
    \/ ScreenerGetCacheStats
    \/ Reload

SpecStats == Init /\ [][NextStats]_vars

(* The cache instances swept by their intervals: the clock moves in half
   periods, over eleven minutes *)

TimerInstants == {k * (SWEEP_INTERVAL \div 2) : k \in 0..22}

NextTimer ==
    \/ \E t \in TimerInstants : TickOnTime(t)
    \/ \E symbol \in FacadeSymbols : SetCachedStockData(symbol, "bundleA", TRUE)
    \/ \E templateId \in TemplateIds : SetCachedScreenerData(templateId, "bundleA", TRUE)
    \/ IntervalFires(TRUE)
    \/ Unmount
    \/ Reload

SpecTimer == Init /\ [][NextTimer]_vars

(* The stock function of the facade over two symbols, with calls for both
   in flight together *)

NextTwoKeys ==
    \/ \E t \in KeyInstants : Tick(t)
    \/ \E symbol \in Symbols, forceRefresh \in BOOLEAN :
          CachedGetStockData(symbol, forceRefresh)
    \/ \E i \in 1..MaxCalls, data \in Data : FetchResolves(i, data, TRUE)
    \/ \E i \in 1..MaxCalls : FetchRejects(i)
    \/ StockClearExpiredEntries(TRUE, TRUE)
    \/ StockClearCache(TRUE, TRUE)

SpecTwoKeys == InitFacade /\ [][NextTwoKeys]_vars

(* A session that stays alive for sixteen and a half minutes: entries are
   set during its first half minute, the clock moves on in half periods with
   every interval firing on time, and nothing else is called *)

SweepInstants == {k * (SWEEP_INTERVAL \div 2) : k \in 0..33}

NextSweeping ==
    \/ \E t \in SweepInstants : TickOnTime(t)
    \/ /\ now < SWEEP_INTERVAL
       /\ \E symbol \in Symbols : SetCachedStockData(symbol, "bundleA", TRUE)
    \/ /\ now < SWEEP_INTERVAL
       /\ \E prompt \in Prompts : SetCachedAIAnalysis(prompt, <<"q1">>, "bundleA", TRUE)
    \/ /\ now < SWEEP_INTERVAL
       /\ \E templateId \in TemplateIds : SetCachedScreenerData(templateId, "bundleA", TRUE)
    \/ IntervalFires(TRUE)

(* time goes on, and an interval that is due fires *)
SpecSweeping ==
    /\ Init
    /\ [][NextSweeping]_vars
    /\ WF_<<now, timers>>(\E t \in SweepInstants : TickOnTime(t))
    /\ WF_<<now, timers>>(IntervalFires(TRUE))

(* The AI cache and its facade over subjects and questions whose text may
   contain the separator of the composite key *)

KeyPrompts == {<<"AAPL">>, <<"AAPL", ":", "q1">>}

KeyQuestions == {<<"q2">>, <<"q1", ":", "q2">>}

NextKeys ==
    \/ \E t \in KeyInstants : Tick(t)
    \/ \E prompt \in KeyPrompts, question \in KeyQuestions :
          GetCachedAIAnalysis(prompt, question)
    \/ \E prompt \in KeyPrompts, question \in KeyQuestions, data \in Data :
          SetCachedAIAnalysis(prompt, question, data, TRUE)
    \/ \E prompt \in KeyPrompts, question \in KeyQuestions :
          CachedGetAIAnalysis(prompt, question, FALSE)
    \/ \E i \in 1..MaxCalls, data \in Data : FetchResolves(i, data, TRUE)
    \/ \E i \in 1..MaxCalls : FetchRejects(i)

SpecKeys == InitFacade /\ [][NextKeys]_vars

-----------------------------------------------------------------------------
(* Properties *)

WithinTtl(cache, key) ==
    key \in DOMAIN cache /\ now - cache[key].timestamp <= cache[key].ttl

(* C1: in each of the three caches, a get returns the stored data if and only
   if the map holds an entry for the key and now - storedAt <= ttl at the time
   of the call (so still at now - storedAt = ttl), and null otherwise. *)
C1_GetReturnsDataIffWithinTtl ==
    lastOp.op = "get" =>
        LET cache == CacheOf(lastOp.cache)
        IN  /\ lastOp.val # Null <=> WithinTtl(cache, lastOp.key)
            /\ lastOp.val # Null => lastOp.val = cache[lastOp.key].data

C1_Witness ==
    /\ lastOp.op = "get"
    /\ lastOp.cache = "screener"
    /\ lastOp.val # Null
    /\ now - screenerCache[lastOp.key].timestamp = SCREENER_CACHE_TTL

(* C2: while no TTL has elapsed since the most recent set of a key in this
   session, get of that key returns the data of that set, and only that. *)
C2_GetReturnsMostRecentSet ==
    /\ \A c \in Caches : \A k \in DOMAIN lastSet[c] :
          now - lastSet[c][k].at <= ConfiguredTtl(c) =>
              cachedData(CacheOf(c), k) = lastSet[c][k].data
    /\ \A symbol \in Symbols :
          symbol \in DOMAIN lastSet.stock =>
              getCachedStockData(symbol) = lastSet.stock[symbol].data
    /\ \A prompt \in Prompts, question \in Questions \ {Undefined} :
          AIKeyOfSet(prompt, question) \in DOMAIN lastSet.ai =>
              getCachedAIAnalysis(prompt, question) =
                  lastSet.ai[AIKeyOfSet(prompt, question)].data
    /\ \A templateId \in TemplateIds :
          templateId \in DOMAIN lastSet.screener =>
              getCachedScreenerData(templateId) = lastSet.screener[templateId].data

C2_Witness ==
    /\ lastOp.op = "get"
    /\ lastOp.cache = "stock"
    /\ lastOp.key \in DOMAIN lastSet.stock
    /\ lastSet.stock[lastOp.key].data = "bundleB"
    /\ lastOp.val = "bundleB"
    /\ now > lastSet.stock[lastOp.key].at

(* C3: a facade call with forceRefresh false, made while the cache holds a
   valid entry for its key, returns the cached data, invokes no upstream fetch
   and performs no set. *)
C3_HitReturnsCachedWithoutFetch ==
    (lastOp.op = "call" /\ ~lastOp.force /\ WithinTtl(CacheOf(lastOp.cache), lastOp.key)) =>
        /\ lastOp.val = CacheOf(lastOp.cache)[lastOp.key].data
        /\ ~lastOp.fetch
        /\ lastOp.sets = <<>>
        /\ lastOp.wrote = {}

C3_Witness ==
    /\ lastOp.op = "call"
    /\ lastOp.cache = "ai"
    /\ ~lastOp.force
    /\ lastOp.val \in Data
    /\ ~lastOp.fetch

(* C4: when the upstream fetch of a facade call that observed a miss resolves,
   the call performs exactly one set, under the key it looked up and with the
   fetched data, and returns the fetched data. *)
C4_MissThenFetchSetsOnceAndReturnsFetched ==
    (lastOp.op = "resolve" /\ ~lastOp.force) =>
        /\ lastOp.sets = <<SetCall(lastOp.cache, lastOp.key, lastOp.input)>>
        /\ lastOp.val = lastOp.input
        /\ cachedData(CacheOf(lastOp.cache), lastOp.key) = lastOp.input

C4_Witness ==
    /\ lastOp.op = "resolve"
    /\ lastOp.cache = "ai"
    /\ ~lastOp.force
    /\ lastOp.key = <<"AAPL", ":">>
    /\ Len(lastOp.sets) = 1
    /\ lastOp.val = "bundleA"

(* C5: a facade call with forceRefresh true invokes the upstream fetch, also
   when a valid entry for its key exists; when the fetch resolves the entry of
   the key is the fetched data, stored at the time of the set with the
   configured TTL. *)
C5_ForceRefreshFetchesAndReplaces ==
    /\ (lastOp.op = "call" /\ lastOp.force) => (lastOp.fetch /\ lastOp.val = Null)
    /\ (lastOp.op = "resolve" /\ lastOp.force) =>
          /\ lastOp.key \in DOMAIN CacheOf(lastOp.cache)
          /\ CacheOf(lastOp.cache)[lastOp.key] =
                [data |-> lastOp.input, timestamp |-> now, ttl |-> CACHE_TTL]
          /\ localStorage[SlotOf(lastOp.cache)] = JSONstringify(CacheOf(lastOp.cache))

C5_Witness ==
    /\ lastOp.op = "call"
    /\ lastOp.force
    /\ lastOp.fetch
    /\ WithinTtl(CacheOf(lastOp.cache), lastOp.key)

(* C6: when the upstream fetch of a facade call rejects, the caller gets the
   failure, no set is performed, and neither step of the call changes an
   in-memory map or a store slot; a facade call that misses always invokes the
   upstream fetch, so a failure is never remembered. *)
C6_RejectionPropagatesAndChangesNothing ==
    /\ [][lastOp'.op \in {"call", "reject"} =>
            /\ stockCache' = stockCache
            /\ aiCache' = aiCache
            /\ localStorage' = localStorage
            /\ lastOp'.sets = <<>>
            /\ lastOp'.wrote = {}
            /\ lastOp'.op = "reject" => lastOp'.val = Thrown]_vars
    /\ [](lastOp.op = "call" /\ ~WithinTtl(CacheOf(lastOp.cache), lastOp.key) => lastOp.fetch)

C6_Witness ==
    /\ lastOp.op = "reject"
    /\ lastOp.force
    /\ lastOp.val = Thrown
    /\ WithinTtl(CacheOf(lastOp.cache), lastOp.key)

(* C7: a reload that hydrates a cache from a slot holding the serialization
   of its map yields the same map (keys, data, storedAt, ttl), so every get
   returns after the reload what it returned before it. *)
C7_EntriesSurviveReload ==
    [][lastOp'.op = "reload" =>
          \A c \in Caches :
              localStorage[SlotOf(c)] = JSONstringify(CacheOf(c)) =>
                  /\ CacheOf(c)' = CacheOf(c)
                  /\ \A k \in DOMAIN CacheOf(c) :
                        cachedData(CacheOf(c), k)' = cachedData(CacheOf(c), k)]_vars

C7_Witness ==
    /\ lastOp.op = "reload"
    /\ \E k \in DOMAIN stockCache :
          /\ now - stockCache[k].timestamp = CACHE_TTL
          /\ getCachedStockData(k) = "bundleA"
    /\ localStorage[STOCK_CACHE_KEY] = JSONstringify(stockCache)

(* C8: right after clear() every get of the cleared caches returns null, their
   stats report zero entries and their store slots do not exist. *)
C8_ClearEmptiesMapStatsAndSlot ==
    /\ (lastOp.op = "clear" /\ lastOp.cache = "useStockCache") =>
          /\ \A symbol \in Symbols : getCachedStockData(symbol) = Null
          /\ \A prompt \in Prompts, question \in Questions :
                getCachedAIAnalysis(prompt, question) = Null
          /\ stockGetCacheStats = [stockEntries |-> 0, aiEntries |-> 0, totalEntries |-> 0]
          /\ localStorage[STOCK_CACHE_KEY] = NoItem
          /\ localStorage[AI_CACHE_KEY] = NoItem
    /\ (lastOp.op = "clear" /\ lastOp.cache = "useScreenerCache") =>
          /\ \A templateId \in TemplateIds : getCachedScreenerData(templateId) = Null
          /\ screenerGetCacheStats =
                [screenerEntries |-> 0, validEntries |-> 0, expiredEntries |-> 0]
          /\ localStorage[SCREENER_CACHE_KEY] = NoItem

C8_Witness ==
    /\ lastOp.op = "clear"
    /\ lastOp.cache = "useStockCache"
    /\ lastOp.input.entries = 3
    /\ lastOp.input.expired = 1

(* C9: a sweep removes from each map of its hook exactly the entries for which
   isExpired holds at sweep time and keeps every other entry as it is; the
   entries it keeps are exactly those get still returns. *)
C9_SweepRemovesExactlyTheExpired ==
    [][lastOp'.op = "sweep" =>
          \A c \in (IF lastOp'.cache = "useStockCache" THEN {"stock", "ai"} ELSE {"screener"}) :
              /\ DOMAIN CacheOf(c)' = {k \in DOMAIN CacheOf(c) : ~isExpired(CacheOf(c)[k])}
              /\ \A k \in DOMAIN CacheOf(c)' : CacheOf(c)'[k] = CacheOf(c)[k]
              /\ DOMAIN CacheOf(c)' = {k \in DOMAIN CacheOf(c) : cachedData(CacheOf(c), k) # Null}]_vars

C9_Witness ==
    /\ lastOp.op = "sweep"
    /\ "stock" \in lastOp.input
    /\ \E k \in DOMAIN stockCache : now - stockCache[k].timestamp = CACHE_TTL
    /\ localStorage[STOCK_CACHE_KEY] = JSONstringify(stockCache)

(* C10: a sweep in which no entry of a cache instance is expired issues no
   write to the store slot of that instance, whatever the other caches hold. *)
C10_SweepWithoutExpiredEntriesWritesNothing ==
    lastOp.op = "sweep" =>
        \A c \in (IF lastOp.cache = "useStockCache" THEN {"stock", "ai"} ELSE {"screener"}) :
            c \notin lastOp.input => SlotOf(c) \notin lastOp.wrote

(* C11: a set never throws; when its write to the store fails, the entry of
   the key in memory is nevertheless the one just set, and every get of the
   key made in this session within the TTL of that set returns its data. *)
C11_SetSurvivesFailedWrite ==
    /\ lastOp.op = "set" => lastOp.val = Null
    /\ (lastOp.op = "set" /\ lastOp.failed # {}) =>
          /\ lastOp.key \in DOMAIN CacheOf(lastOp.cache)
          /\ CacheOf(lastOp.cache)[lastOp.key] =
                [data |-> lastOp.input, timestamp |-> now, ttl |-> ConfiguredTtl(lastOp.cache)]
          /\ cachedData(CacheOf(lastOp.cache), lastOp.key) = lastOp.input
    /\ (lastOp.op = "get" /\ lastOp.key \in DOMAIN lastSet[lastOp.cache]) =>
          lastOp.val = lastSet[lastOp.cache][lastOp.key].data

C11_Witness ==
    /\ lastOp.op = "get"
    /\ lastOp.cache = "stock"
    /\ lastOp.val = "bundleB"
    /\ now = CACHE_TTL
    /\ stockCache[lastOp.key].timestamp = 0
    /\ localStorage[STOCK_CACHE_KEY] = NoItem

(* C12: a mount that finds text JSON.parse rejects in the slot of a cache
   leaves that cache empty in memory, removes the slot and throws nothing;
   a set made afterwards stores its entry, which get returns, and writes the
   slot again. *)
C12_CorruptSlotHydratesEmptyAndIsCleared ==
    /\ lastOp.op = "reload" =>
          /\ lastOp.val = Null
          /\ \A c \in lastOp.input :
                /\ CacheOf(c) = EmptyMap
                /\ localStorage[SlotOf(c)] = NoItem
    /\ lastOp.op = "set" =>
          /\ cachedData(CacheOf(lastOp.cache), lastOp.key) = lastOp.input
          /\ localStorage[SlotOf(lastOp.cache)] = JSONstringify(CacheOf(lastOp.cache))

C12_Witness ==
    /\ lastOp.op = "reload"
    /\ lastOp.input = {"ai"}
    /\ aiCache = EmptyMap
    /\ localStorage[AI_CACHE_KEY] = NoItem

(* C13: no storage fault reaches the caller of get, set or clear: each of
   them returns normally, and after a clear whose removeItem failed the maps
   of the hook are empty. *)
C13_StorageFaultsNeverReachCallers ==
    /\ lastOp.op \in {"get", "set", "clear"} => lastOp.val # Thrown
    /\ lastOp.op = "clear" => \A c \in OwnCaches : CacheOf(c) = EmptyMap

Malformed(entry) ==
    entry.data = NoData \/ entry.timestamp = Missing \/ entry.ttl = Missing

(* C14: get of a key whose hydrated entry misses data, timestamp or ttl
   returns nothing (null, or undefined, which callers treat alike) at every
   time, as for a miss, and get of the well-formed entries of the same map
   returns their data exactly while they are within their TTL. *)
C14_MalformedEntryIsAbsent ==
    (lastOp.op = "get" /\ lastOp.key \in DOMAIN CacheOf(lastOp.cache)) =>
        IF Malformed(CacheOf(lastOp.cache)[lastOp.key])
        THEN lastOp.val \in {Null, NoData}
        ELSE lastOp.val # Null <=> WithinTtl(CacheOf(lastOp.cache), lastOp.key)

(* C15: after every hydration, set, sweep and clear in which no storage call
   failed, the slot of each cache holds the serialization of the whole map of
   that cache, an absent slot counting as the empty map. *)
C15_SlotHoldsSerializationOfMap ==
    (lastOp.op \in {"reload", "set", "sweep", "clear"} /\ lastOp.failed = {}) =>
        \A c \in OwnCaches :
            \/ localStorage[SlotOf(c)] = JSONstringify(CacheOf(c))
            \/ localStorage[SlotOf(c)] = NoItem /\ CacheOf(c) = EmptyMap

(* the caches of the hook that performed the operation; none for an operation
   of another component *)
OwnedBy(o) ==
    CASE o.op \in {"set", "resolve"} -> {o.cache}
      [] o.op = "sweep" -> IF o.cache = "useStockCache" THEN {"stock", "ai"} ELSE {"screener"}
      [] OTHER -> {}

(* C16: setItem is called on the slot of a cache only by an operation of the
   hook that owns the cache, never by another component. *)
C16_SlotsWrittenOnlyByOwner ==
    \A c \in Caches : SlotOf(c) \in lastOp.wrote => c \in OwnedBy(lastOp)

(* C17: for any two distinct (subject, question) pairs, a set for one pair,
   and a facade fetch for one pair that resolves, leave what get returns for
   the other pair as it was. *)
C17_DistinctPairsAreIndependent ==
    [][\A prompt \in KeyPrompts, question \in KeyQuestions :
          \A other \in (KeyPrompts \X KeyQuestions) \ {<<prompt, question>>} :
              /\ (\E data \in Data : SetCachedAIAnalysis(prompt, question, data, TRUE)) =>
                    getCachedAIAnalysis(other[1], other[2])' =
                        getCachedAIAnalysis(other[1], other[2])
              /\ (\E i \in 1..MaxCalls, data \in Data :
                      /\ FetchResolves(i, data, TRUE)
                      /\ calls[i].args = <<prompt, question>>) =>
                    getCachedAIAnalysis(other[1], other[2])' =
                        getCachedAIAnalysis(other[1], other[2])]_vars

(* C18: a set on a key that already has an entry, valid or expired, leaves
   for the key the entry with the data of this set, the time of this set and
   the configured TTL of the cache (10 minutes for stock and AI, 15 for
   screener); every entry of a map carries the configured TTL and get returns
   its data until its timestamp plus that TTL, and not after. *)
C18_SetReplacesWithConfiguredTtl ==
    /\ lastOp.op = "set" =>
          /\ lastOp.key \in DOMAIN CacheOf(lastOp.cache)
          /\ CacheOf(lastOp.cache)[lastOp.key].data = lastOp.input
          /\ CacheOf(lastOp.cache)[lastOp.key].timestamp = now
          /\ CacheOf(lastOp.cache)[lastOp.key].ttl =
                (IF lastOp.cache = "screener" THEN 15 * 60 * 1000 ELSE 10 * 60 * 1000)
    /\ \A c \in Caches : \A k \in DOMAIN CacheOf(c) :
          /\ CacheOf(c)[k].ttl = ConfiguredTtl(c)
          /\ cachedData(CacheOf(c), k) = CacheOf(c)[k].data <=>
                now <= CacheOf(c)[k].timestamp + ConfiguredTtl(c)

C18_Witness ==
    /\ lastOp.op = "set"
    /\ lastOp.cache = "screener"
    /\ lastOp.before = "expired"
    /\ now = SCREENER_CACHE_TTL + 1
    /\ getCachedScreenerData(lastOp.key) = lastOp.input

(* C19: a facade call without forceRefresh made while the cache holds no
   valid entry for its key starts its own upstream fetch, also when a call
   for the same key is already in flight (nothing coalesces them); and each
   fetch that resolves sets the entry of its key to its own result, so after
   both the entry is that of the call whose set ran last, in whatever order
   the calls were issued. *)
C19_NoCoalescingLastSetWins ==
    /\ (lastOp.op = "call" /\ ~lastOp.force
            /\ ~WithinTtl(CacheOf(lastOp.cache), lastOp.key)) =>
          /\ lastOp.fetch
          /\ Len(calls) >= 1
          /\ calls[Len(calls)].fn = lastOp.cache
          /\ calls[Len(calls)].key = lastOp.key
    /\ lastOp.op = "resolve" =>
          /\ lastOp.key \in DOMAIN CacheOf(lastOp.cache)
          /\ CacheOf(lastOp.cache)[lastOp.key].data = lastOp.input
          /\ CacheOf(lastOp.cache)[lastOp.key].timestamp = now
          /\ lastOp.val = lastOp.input

(* of two calls for one key that both missed and were in flight together,
   one has resolved and set the entry; the other is still in flight *)
C19_Witness ==
    /\ lastOp.op = "resolve"
    /\ ~lastOp.force
    /\ lastOp.cache = "stock"
    /\ Len(calls) = 1
    /\ calls[1].fn = "stock"
    /\ calls[1].key = lastOp.key
    /\ ~calls[1].forceRefresh
    /\ stockCache[lastOp.key].data = lastOp.input

(* the map of a cache after a step *)
CacheAfter(cache) ==
    CASE cache = "stock" -> stockCache'
      [] cache = "ai" -> aiCache'
      [] cache = "screener" -> screenerCache'

SameCall(a, b) ==
    a.fn = b.fn /\ a.forceRefresh = b.forceRefresh /\ a.args = b.args

SameCalls(s, t) ==
    Len(s) = Len(t) /\ \A n \in 1..Len(s) : SameCall(s[n], t[n])

(* C20: nothing cancels a fetch in flight: a call leaves the calls in flight
   only when its own fetch resolves or rejects (a clear, a sweep, the clock
   and further calls, for this key or another, leave it in flight), and
   every fetch that resolves performs the set of its result under its key,
   which the map then holds and the slot records. *)
C20_ResolvedFetchAlwaysSets ==
    [][
        /\ lastOp'.op \notin {"resolve", "reject"} =>
             /\ Len(calls') >= Len(calls)
             /\ SameCalls(SubSeq(calls', 1, Len(calls)), calls)
        /\ lastOp'.op \in {"resolve", "reject"} =>
             \E i \in 1..Len(calls) : SameCalls(calls', Without(calls, i))
        /\ lastOp'.op = "resolve" =>
             /\ lastOp'.sets = <<SetCall(lastOp'.cache, lastOp'.key, lastOp'.input)>>
             /\ lastOp'.key \in DOMAIN CacheAfter(lastOp'.cache)
             /\ CacheAfter(lastOp'.cache)[lastOp'.key].data = lastOp'.input
             /\ localStorage'[SlotOf(lastOp'.cache)] =
                   JSONstringify(CacheAfter(lastOp'.cache))
      ]_vars

(* a fetch resolves and sets right after a clear that ran while it was in
   flight, and while a call for a key of the other cache is in flight *)
C20_Witness ==
    /\ lastOp.op = "resolve"
    /\ lastOp.after = "clear"
    /\ Len(lastOp.sets) = 1
    /\ lastOp.key \in DOMAIN CacheOf(lastOp.cache)
    /\ Len(calls) = 1
    /\ calls[1].fn # lastOp.cache
(* the calls the facade of SpecSettling can have in flight *)
PossibleCalls ==
    {Call("stock", symbol, <<symbol>>, forceRefresh) :
        symbol \in FacadeSymbols, forceRefresh \in BOOLEAN}

InFlight(c) ==
    \E n \in 1..Len(calls) :
        IF calls[n].fn = c.fn
        THEN calls[n].key = c.key /\ calls[n].forceRefresh = c.forceRefresh
        ELSE FALSE

(* the operation is the end (resolve or reject) of a call like c *)
Ends(o, c) ==
    IF o.op \in {"resolve", "reject"} /\ o.cache = c.fn
    THEN o.key = c.key /\ o.force = c.forceRefresh
    ELSE FALSE

(* C21: a facade call checks the cache (unless forceRefresh) and on a hit
   returns the cached data at once; otherwise it starts the upstream fetch and
   stays in flight until that fetch settles: on success it sets once and
   returns the fetched data, on failure it sets nothing and returns the
   error; either way it leaves the calls in flight.  Every call in flight
   ends, provided upstream fetches settle. *)
C21_CallFollowsStateMachineAndEnds ==
    /\ [][
          /\ lastOp'.op = "call" =>
               IF ~lastOp'.force /\ cachedData(CacheOf(lastOp'.cache), lastOp'.key) # Null
               THEN /\ lastOp'.val = cachedData(CacheOf(lastOp'.cache), lastOp'.key)
                    /\ ~lastOp'.fetch
                    /\ SameCalls(calls', calls)
               ELSE /\ lastOp'.val = Null
                    /\ lastOp'.fetch
                    /\ Len(calls') = Len(calls) + 1
                    /\ SameCalls(SubSeq(calls', 1, Len(calls)), calls)
                    /\ calls'[Len(calls')].fn = lastOp'.cache
                    /\ calls'[Len(calls')].key = lastOp'.key
                    /\ calls'[Len(calls')].forceRefresh = lastOp'.force
          /\ lastOp'.op \in {"resolve", "reject"} =>
               /\ \E i \in 1..Len(calls) :
                     /\ Ends(lastOp', calls[i])
                     /\ SameCalls(calls', Without(calls, i))
               /\ IF lastOp'.op = "resolve"
                  THEN /\ lastOp'.sets =
                             <<SetCall(lastOp'.cache, lastOp'.key, lastOp'.input)>>
                       /\ lastOp'.val = lastOp'.input
                  ELSE /\ lastOp'.sets = <<>>
                       /\ lastOp'.val = Thrown
          /\ lastOp'.op \notin {"call", "resolve", "reject"} => SameCalls(calls', calls)
         ]_vars
    /\ \A c \in PossibleCalls : InFlight(c) ~> Ends(lastOp, c)

(* a forced call, which skipped the check, has ended with its set and
   returned the fetched data at a later time, and no call is in flight *)
C21_Witness ==
    /\ lastOp.op = "resolve"
    /\ lastOp.force
    /\ lastOp.sets = <<SetCall("stock", lastOp.key, "bundleB")>>
    /\ lastOp.val = "bundleB"
    /\ calls = <<>>
    /\ now > 0

(* C22: hydration of a cache depends only on the slot of that cache: a slot
   holding the JSON text of a map gives exactly that map and is left as it
   is, an absent slot gives the empty map, and a slot holding text JSON.parse
   rejects gives the empty map and is removed; whatever the slots of the
   other caches hold. *)
C22_HydrationDependsOnOwnSlotOnly ==
    lastOp.op = "reload" =>
        \A c \in OwnCaches :
            LET read == lastOp.before[SlotOf(c)]
            IN  CASE read.kind = "json" ->
                       /\ CacheOf(c) = JSONparse(read)
                       /\ localStorage[SlotOf(c)] = read
                  [] read.kind = "null" ->
                       /\ CacheOf(c) = EmptyMap
                       /\ localStorage[SlotOf(c)] = NoItem
                  [] read.kind = "corrupt" ->
                       /\ CacheOf(c) = EmptyMap
                       /\ localStorage[SlotOf(c)] = NoItem

(* C23, as stated: getCacheStats returns stockEntries, aiEntries and
   screenerEntries, each the number of entries of the corresponding map at
   the time of the call, and totalEntries, their sum; the call changes no map
   and no slot. *)
C23_StatsIsLiveSnapshotOverThreeCaches ==
    [][lastOp'.op = "stats" =>
          /\ {"stockEntries", "aiEntries", "screenerEntries", "totalEntries"}
                 \subseteq DOMAIN lastOp'.val
          /\ lastOp'.val.stockEntries = Cardinality(DOMAIN stockCache)
          /\ lastOp'.val.aiEntries = Cardinality(DOMAIN aiCache)
          /\ lastOp'.val.screenerEntries = Cardinality(DOMAIN screenerCache)
          /\ lastOp'.val.totalEntries =
                 Cardinality(DOMAIN stockCache) + Cardinality(DOMAIN aiCache)
                    + Cardinality(DOMAIN screenerCache)
          /\ UNCHANGED <<stockCache, aiCache, screenerCache, localStorage>>]_vars

(* C23, amended: getCacheStats of each hook counts the maps of that hook at
   the time of the call: that of useStockCache returns stockEntries and
   aiEntries, the numbers of entries of the stock and the AI map, and
   totalEntries, the sum of these two; that of useScreenerCache returns
   screenerEntries, the number of entries of the screener map; expired
   entries that are still in a map are counted; the call changes no map and
   no slot. *)
C23_StatsIsLiveSnapshotOfOwnMaps ==
    [][lastOp'.op = "stats" =>
          /\ lastOp'.cache = "useStockCache" =>
                /\ lastOp'.val.stockEntries = Cardinality(DOMAIN stockCache)
                /\ lastOp'.val.aiEntries = Cardinality(DOMAIN aiCache)
                /\ lastOp'.val.totalEntries =
                       Cardinality(DOMAIN stockCache) + Cardinality(DOMAIN aiCache)
          /\ lastOp'.cache = "useScreenerCache" =>
                lastOp'.val.screenerEntries = Cardinality(DOMAIN screenerCache)
          /\ UNCHANGED <<stockCache, aiCache, screenerCache, localStorage>>]_vars

(* the stock hook's statistics report three entries after both TTLs went by
   for two of them *)
C23_Witness ==
    /\ lastOp.op = "stats"
    /\ lastOp.cache = "useStockCache"
    /\ lastOp.val.totalEntries = 3
    /\ lastOp.val.aiEntries = 1
    /\ Cardinality({k \in DOMAIN stockCache : isExpired(stockCache[k])}) = 1
    /\ localStorage[STOCK_CACHE_KEY] = JSONstringify(stockCache)

(* C24: while a component is mounted its hook has exactly one interval, due
   within the next 60 seconds; a sweep runs only as the callback of that
   interval at the time it is due, which puts it due again exactly 60 seconds
   later; once the component has unmounted no interval is left and no sweep
   runs. *)
C24_OneSweepIntervalWhileMounted ==
    /\ [](mounted \in Components =>
             /\ Cardinality(timers) = 1
             /\ \A tm \in timers :
                   /\ tm.callback = HookOf(mounted)
                   /\ now <= tm.due
                   /\ tm.due <= now + 60 * 1000)
    /\ [](mounted = Unmounted => timers = {})
    /\ [][lastOp'.op = "sweep" =>
             /\ mounted \in Components
             /\ \E tm \in timers :
                   /\ tm.callback = lastOp'.cache
                   /\ tm.due = now
                   /\ timers' = {[tm EXCEPT !.due = now + 60 * 1000]}]_vars

(* the interval of a hook mounted again half a period late fires for the
   second time, and removes an entry *)
C24_Witness ==
    /\ lastOp.op = "sweep"
    /\ lastOp.input # {}
    /\ now % SWEEP_INTERVAL # 0
    /\ mounted \in Components

(* C25: a set for a key, made directly or by a facade call whose fetch
   resolved, leaves the entry of every other key of the cache as it was,
   whatever calls are in flight; the map then holds the key set and all the
   others, and the slot holds the serialization of that map. *)
C25_SetKeepsEntriesOfOtherKeys ==
    [][lastOp'.op \in {"set", "resolve"} =>
          /\ DOMAIN CacheAfter(lastOp'.cache) =
                 DOMAIN CacheOf(lastOp'.cache) \cup {lastOp'.key}
          /\ \A k \in DOMAIN CacheOf(lastOp'.cache) \ {lastOp'.key} :
                 CacheAfter(lastOp'.cache)[k] = CacheOf(lastOp'.cache)[k]
          /\ localStorage'[SlotOf(lastOp'.cache)] = JSONstringify(CacheAfter(lastOp'.cache))
          /\ \A c \in Caches \ {lastOp'.cache} : CacheAfter(c) = CacheOf(c)]_vars

(* the fetch of a call for one symbol resolves while a call for the other
   symbol is in flight: the map and the slot hold the entry just set and,
   untouched, the entry of the other symbol *)
C25_Witness ==
    /\ lastOp.op = "resolve"
    /\ lastOp.key = "AAPL"
    /\ lastOp.input = "bundleA"
    /\ Len(calls) = 1
    /\ calls[1].key = "MSFT"
    /\ DOMAIN stockCache = {"AAPL", "MSFT"}
    /\ stockCache["AAPL"].data = "bundleA"
    /\ stockCache["MSFT"].data = "bundleB"
    /\ stockCache["MSFT"].timestamp < now
    /\ localStorage[STOCK_CACHE_KEY] = JSONstringify(stockCache)

(* the entry of the key in the cache is expired *)
HoldsExpired(cache, key) ==
    key \in DOMAIN CacheOf(cache) /\ isExpired(CacheOf(cache)[key])

(* the key has no entry in the cache, and the slot of the cache holds the
   serialization of the map *)
RemovedAndPersisted(cache, key) ==
    /\ key \notin DOMAIN CacheOf(cache)
    /\ localStorage[SlotOf(cache)] = JSONstringify(CacheOf(cache))

(* C26: in a session that stays alive, an entry that has expired is
   eventually removed from its map by the sweep interval, with no get and no
   set called after its expiry, and the slot then holds the serialization of
   the pruned map. *)
C26_ExpiredEntryEventuallySwept ==
    /\ \A symbol \in Symbols :
          HoldsExpired("stock", symbol) ~> RemovedAndPersisted("stock", symbol)
    /\ \A prompt \in Prompts :
          HoldsExpired("ai", AIKeyOfSet(prompt, <<"q1">>))
              ~> RemovedAndPersisted("ai", AIKeyOfSet(prompt, <<"q1">>))
    /\ \A templateId \in TemplateIds :
          HoldsExpired("screener", templateId) ~> RemovedAndPersisted("screener", templateId)

(* the interval fires eleven minutes into the session and removes the stock
   and AI entries set in its first half minute *)
C26_Witness ==
    /\ lastOp.op = "sweep"
    /\ lastOp.input = {"stock", "ai"}
    /\ now = 11 * SWEEP_INTERVAL
    /\ stockCache = EmptyMap
    /\ aiCache = EmptyMap
    /\ localStorage[STOCK_CACHE_KEY] = JSONstringify(EmptyMap)
    /\ localStorage[AI_CACHE_KEY] = JSONstringify(EmptyMap)

(* C27: the Refresh button is a force-refresh: even when the cache holds a
   valid entry of the displayed symbol, handleForceRefresh starts the upstream
   stock fetch (whose result rewrites the entry) instead of taking the
   cache-hit path. *)
C27_RefreshBypassesCacheHit ==
    lastOp.op = "handleForceRefresh" =>
        /\ lastOp.fetch
        /\ \E n \in 1..Len(app.searches) : app.searches[n] = Search(lastOp.key, "stock")

(* the slot holds an entry of the symbol *)
SlotHolds(slot, symbol) ==
    \E m \in localStorage[slot].members : Deleted(slot, m.key, symbol)

(* the last operation was a set of the symbol's entry in the cache of the slot *)
SetOf(o, slot, symbol) ==
    /\ o.op = "set"
    /\ o.cache = (IF slot = STOCK_CACHE_KEY THEN "stock" ELSE "ai")
    /\ Deleted(slot, o.key, symbol)

(* C28: removeFromRecentSearches(symbol) clears the symbol from the cache:
   right after it the stock lookup of the symbol misses and neither slot
   holds an entry of the symbol, and for the rest of the session a slot comes
   to hold an entry of the symbol again only by a new set of that symbol (the
   store of a successful fetch). *)
C28_RemovedSymbolIsGoneUntilNewFetch ==
    /\ [](lastOp.op = "removeFromRecentSearches" =>
             /\ getCachedStockData(lastOp.key) = Null
             /\ ~SlotHolds(STOCK_CACHE_KEY, lastOp.key)
             /\ ~SlotHolds(AI_CACHE_KEY, lastOp.key))
    /\ [][\A slot \in {STOCK_CACHE_KEY, AI_CACHE_KEY}, symbol \in Symbols :
             ~SlotHolds(slot, symbol) /\ SlotHolds(slot, symbol)' =>
                 SetOf(lastOp', slot, symbol)]_vars

(* C29: when handleSearch is called for a symbol while an earlier
   handleSearch is still in flight, then once every call has completed (here:
   every fetch has resolved) the stock analysis and the AI analysis on display
   are those of the symbol requested last, in whatever order the fetches
   resolved. *)
C29_LastRequestedSymbolIsDisplayed ==
    (app.searches = <<>> /\ app.requested # Null) =>
        /\ app.analysis.symbol = app.requested
        /\ app.aiAnalysis.symbol = app.requested

(* C30: when a screener fetch fails because of authentication (the backend
   answers 401, or no valid token is found), the component's isAuthenticated
   becomes false, and nothing is written to the screener cache. *)
C30_AuthFailureClearsAuthenticatedAndCachesNothing ==
    (\/ lastOp.op = "screenerResponse" /\ lastOp.input = "401"
     \/ lastOp.op = "fetchScreenerResults" /\ lastOp.input = "noToken") =>
        /\ ~screener.isAuthenticated
        /\ lastOp.sets = <<>>
        /\ lastOp.wrote = {}

====
